---- MODULE Spec2Model ----
(***************************************************************************)
(* Prospector: the rule-based consistency engine (src/consistency.js),     *)
(* applied to the snapshots a caller holds.                                *)
(*                                                                         *)
(* Encoding of JavaScript values:                                          *)
(*   - a string is a TLA+ string; a style value that is `undefined` is the *)
(*     reserved string Undefined (no style value of the inputs equals it); *)
(*   - an optional property is <<>> when absent and <<v>> when present;    *)
(*   - an array is a sequence; a Set or Map is the sequence of its members *)
(*     in insertion order (the order JavaScript iterates them in);         *)
(*   - a template-literal message is the tuple of its template and of the  *)
(*     values interpolated into it, in order;                              *)
(*   - a call that raises returns Raised instead of an issue sequence.     *)
(***************************************************************************)
EXTENDS Integers, Sequences, FiniteSets, TLC

VARIABLES
    snapshots,  \* the snapshot list the caller holds and passes to the engine
    issues,     \* the issue sequence the last engine call returned
    previous,   \* what the call before it returned, when it had the same arguments
    lastCall,   \* the last engine call: its name and its argument
    panelPorts, \* background: the ports of the connected panels
    storage,    \* chrome.storage.local: prospector_snapshots, <<>> while never set
    pending,    \* the storage operations issued and not yet performed, oldest first
    handlers,   \* background: the running calls of the port.onMessage listener
    inbox,      \* per port, the messages posted to the panel and not yet handled
    panel,      \* per port, the panel's snapshots, currentIssues and widgets
    clock,      \* the number of snapshots extracted so far (their timestamps)
    cleared,    \* the timestamps of the snapshots a CLEAR_SNAPSHOTS write removed
    written     \* the timestamps of the snapshots written since the last clear

\* the engine and the list it is applied to
engine == <<snapshots, issues, previous, lastCall>>

\* the background service worker, the storage and the panels
extension == <<panelPorts, storage, pending, handlers, inbox, panel, clock, cleared, written>>

vars == <<snapshots, issues, previous, lastCall,
          panelPorts, storage, pending, handlers, inbox, panel, clock, cleared, written>>

----------------------------------------------------------------------------
(* JavaScript values *)

Undefined == "<undefined>"

Absent == <<>>

Some(v) == <<v>>

Present(m) == m # <<>>

Get(m) == m[1]

\* !s for a string-valued property
Falsy(s) == s = "" \/ s = Undefined

\* what a call that raised a TypeError yields, in place of an issue sequence
Raised == <<[severity |-> "TypeError", category |-> "", message |-> <<>>,
             detail |-> <<>>, url |-> Absent]>>

\* String.prototype.substring(0, n); the inputs hold no string longer than n
Substring(s, n) == CASE Len(s) <= n -> s

Min(a, b) == IF a < b THEN a ELSE b

RECURSIVE Flatten(_)
Flatten(ss) ==
    IF ss = <<>> THEN <<>> ELSE Flatten(SubSeq(ss, 1, Len(ss) - 1)) \o ss[Len(ss)]

Contains(s, v) == \E i \in 1..Len(s) : s[i] = v

\* [...new Set(s)]: the distinct members of s, in first-occurrence order
Uniq(s) ==
    LET first == SelectSeq([i \in 1..Len(s) |-> i],
                           LAMBDA i : \A j \in 1..(i - 1) : s[j] # s[i])
    IN [k \in 1..Len(first) |-> s[first[k]]]

\* Array.prototype.join: undefined joins as the empty string
RECURSIVE Join(_, _)
Join(s, sep) ==
    IF s = <<>> THEN ""
    ELSE LET last == IF s[Len(s)] = Undefined THEN "" ELSE s[Len(s)]
         IN IF Len(s) = 1 THEN last
            ELSE Join(SubSeq(s, 1, Len(s) - 1), sep) \o sep \o last

Issue(severity, category, message, detail, url) ==
    [severity |-> severity, category |-> category, message |-> message,
     detail |-> detail, url |-> url]

----------------------------------------------------------------------------
(* Utilities *)

StyleKey(el, styleKeys) ==
    Join([k \in 1..Len(styleKeys) |-> el.styles[styleKeys[k]]], "|")

\* the groups, in first-occurrence order of their key
_groupByStyles(elements, styleKeys) ==
    LET keys == Uniq([i \in 1..Len(elements) |-> StyleKey(elements[i], styleKeys)])
    IN [g \in 1..Len(keys) |->
           SelectSeq(elements, LAMBDA el : StyleKey(el, styleKeys) = keys[g])]

ButtonStyleKeys == <<"fontSize", "fontFamily", "borderRadius", "padding">>

InputStyleKeys == <<"fontSize", "border", "borderRadius", "padding">>

SkeletonStyleKeys == <<"backgroundColor", "borderRadius">>

----------------------------------------------------------------------------
(* Single-page checks *)

\* mutant: the style-count threshold one too high
StyleGroupMax_three == 2 + 1

\* `styleGroups.length > 2`, for buttons, inputs and skeletons
StyleGroupMax == 2

_checkButtonConsistency(buttons, url) ==
    IF Len(buttons) < 2 THEN <<>>
    ELSE
    LET styleGroups == _groupByStyles(buttons, ButtonStyleKeys)
        fontSizes == Uniq([i \in 1..Len(buttons) |-> buttons[i].styles.fontSize])
        borderRadii == Uniq([i \in 1..Len(buttons) |-> buttons[i].styles.borderRadius])
    IN  (IF Len(styleGroups) > StyleGroupMax
         THEN <<Issue("warning", "Buttons",
                      <<"{n} different button styles found on this page", Len(styleGroups)>>,
                      <<Len(styleGroups)>>, Some(url))>>
         ELSE <<>>)
        \o
        (IF Len(fontSizes) > 2
         THEN <<Issue("warning", "Buttons",
                      <<"Buttons use {n} different font sizes: {list}",
                        Len(fontSizes), Join(fontSizes, ", ")>>,
                      <<>>, Some(url))>>
         ELSE <<>>)
        \o
        (IF Len(borderRadii) > 2
         THEN <<Issue("info", "Buttons",
                      <<"Buttons use {n} different border-radius values: {list}",
                        Len(borderRadii), Join(borderRadii, ", ")>>,
                      <<>>, Some(url))>>
         ELSE <<>>)
        \o
        Flatten([i \in 1..Len(buttons) |->
            IF Falsy(buttons[i].text) /\ buttons[i].tag = "button"
            THEN <<Issue("error", "Buttons", <<"Button has no text content">>,
                         <<buttons[i].tag>>, Some(url))>>
            ELSE <<>>])

_checkInputConsistency(inputs, url) ==
    IF Len(inputs) < 2 THEN <<>>
    ELSE
    LET styleGroups == _groupByStyles(inputs, InputStyleKeys)
    IN  (IF Len(styleGroups) > StyleGroupMax
         THEN <<Issue("warning", "Inputs",
                      <<"{n} different input styles found on this page", Len(styleGroups)>>,
                      <<>>, Some(url))>>
         ELSE <<>>)
        \o
        Flatten([i \in 1..Len(inputs) |->
            IF inputs[i].type = "text" /\ Falsy(inputs[i].placeholder)
            THEN <<Issue("info", "Inputs",
                         <<"Text input without placeholder{id}",
                           IF Falsy(inputs[i].id) THEN "" ELSE " (#" \o inputs[i].id \o ")">>,
                         <<>>, Some(url))>>
            ELSE <<>>])

\* parseInt(h.tag.charAt(1)) for the tags the headings selector matches
HeadingLevel(tag) ==
    CASE tag = "h1" -> 1 [] tag = "h2" -> 2 [] tag = "h3" -> 3
      [] tag = "h4" -> 4 [] tag = "h5" -> 5 [] tag = "h6" -> 6

HeadingTag(level) == "h" \o ToString(level)

\* mutant: a skip needs two levels more than one step
LevelStep_two == 1 + 1

\* `levels[i] > levels[i - 1] + 1`: the step down one level that is no skip
LevelStep == 1

_checkHeadingHierarchy(headings, url) ==
    IF Len(headings) = 0 THEN <<>>
    ELSE
    LET levels == [i \in 1..Len(headings) |-> HeadingLevel(headings[i].tag)]
        h1Count == Cardinality({i \in 1..Len(levels) : levels[i] = 1})
        sameLevel(level) == SelectSeq(headings, LAMBDA h : h.tag = HeadingTag(level))
        levelSizes(level) ==
            Uniq([i \in 1..Len(sameLevel(level)) |-> sameLevel(level)[i].styles.fontSize])
    IN  Flatten([i \in 1..Len(levels) |->
            IF i > 1 /\ levels[i] > levels[i - 1] + LevelStep
            THEN <<Issue("warning", "Headings",
                         <<"Heading hierarchy skips from h{a} to h{b}", levels[i - 1], levels[i]>>,
                         <<headings[i - 1].text, levels[i - 1], headings[i].text, levels[i]>>,
                         Some(url))>>
            ELSE <<>>])
        \o
        (IF ~Contains(levels, 1)
         THEN <<Issue("info", "Headings", <<"Page has no h1 heading">>, <<>>, Some(url))>>
         ELSE <<>>)
        \o
        (IF h1Count > 1
         THEN <<Issue("warning", "Headings", <<"Page has {n} h1 headings", h1Count>>,
                      <<>>, Some(url))>>
         ELSE <<>>)
        \o
        Flatten([level \in 1..6 |->
            IF Len(sameLevel(level)) > 1 /\ Len(levelSizes(level)) > 1
            THEN <<Issue("warning", "Headings",
                         <<"h{level} headings have inconsistent font sizes: {list}",
                           level, Join(levelSizes(level), ", ")>>,
                         <<>>, Some(url))>>
            ELSE <<>>])

\* mutant: a severity outside the three the issue list knows
_checkLinkConsistency_notice(links, url) ==
    IF Len(links) < 2 THEN <<>>
    ELSE IF Len(Uniq([i \in 1..Len(links) |-> links[i].styles.color])) > 3
    THEN <<Issue("notice", "Links",
                 <<"Links use {n} different colors",
                   Len(Uniq([i \in 1..Len(links) |-> links[i].styles.color]))>>,
                 <<>>, Some(url))>>
    ELSE <<>>

_checkLinkConsistency(links, url) ==
    IF Len(links) < 2 THEN <<>>
    ELSE
    LET colors == Uniq([i \in 1..Len(links) |-> links[i].styles.color])
    IN  IF Len(colors) > 3
        THEN <<Issue("info", "Links", <<"Links use {n} different colors", Len(colors)>>,
                     <<>>, Some(url))>>
        ELSE <<>>

\* ${img.src ? `: ${img.src.substring(0, 60)}` : ""}
SrcSuffix(img) == IF Falsy(img.src) THEN "" ELSE ": " \o Substring(img.src, 60)

_checkImageAccessibility(images, url) ==
    Flatten([i \in 1..Len(images) |->
        IF Falsy(images[i].alt)
        THEN <<Issue("error", "Images",
                     <<"Image missing alt text{src}", SrcSuffix(images[i])>>,
                     <<>>, Some(url))>>
        ELSE <<>>])

Area(el) == el.dimensions.width * el.dimensions.height

\* snapshot.viewportHeight || 0
ViewportHeight(snapshot) ==
    IF Present(snapshot.viewportHeight) THEN Get(snapshot.viewportHeight) ELSE 0

AboveFold(img, vh) == img.rectTop < vh /\ img.rectBottom > 0

LazyImageMinArea == 120000

_checkAboveFoldLazyImages(snapshot) ==
    LET vh == ViewportHeight(snapshot)
        images == snapshot.elements.images
    IN  IF vh = 0 THEN <<>>
        ELSE Flatten([i \in 1..Len(images) |->
            IF /\ images[i].loading = "lazy"
               /\ AboveFold(images[i], vh)
               /\ Area(images[i]) > LazyImageMinArea
            THEN <<Issue("warning", "Images: Performance",
                         <<"Above-the-fold image uses loading=lazy{src}", SrcSuffix(images[i])>>,
                         <<>>, Some(snapshot.url))>>
            ELSE <<>>])

\* mutant: a later image of the same area replaces the largest
LargestImage_lastOnTie(imgs) ==
    imgs[CHOOSE i \in 1..Len(imgs) :
            /\ \A j \in 1..Len(imgs) : Area(imgs[j]) <= Area(imgs[i])
            /\ \A j \in (i + 1)..Len(imgs) : Area(imgs[j]) < Area(imgs[i])]

\* aboveFold.reduce(...): a later image replaces the largest only when strictly larger
RECURSIVE LargestImage(_)
LargestImage(imgs) ==
    IF Len(imgs) = 1 THEN imgs[1]
    ELSE LET largest == LargestImage(SubSeq(imgs, 1, Len(imgs) - 1))
         IN IF Area(imgs[Len(imgs)]) > Area(largest) THEN imgs[Len(imgs)] ELSE largest

HeroMinArea == 50000

_checkHeroImageHints(snapshot) ==
    LET vh == ViewportHeight(snapshot)
        aboveFold == SelectSeq(snapshot.elements.images, LAMBDA img : AboveFold(img, vh))
        hero == LargestImage(aboveFold)
    IN  IF vh = 0 THEN <<>>
        ELSE IF Len(aboveFold) = 0 THEN <<>>
        ELSE IF Area(hero) < HeroMinArea THEN <<>>
        ELSE
        (IF Falsy(hero.fetchPriority) \/ hero.fetchPriority = "auto"
         THEN <<Issue("info", "Images: Performance",
                      <<"Largest above-fold image missing fetchpriority=high{src}", SrcSuffix(hero)>>,
                      <<>>, Some(snapshot.url))>>
         ELSE <<>>)
        \o
        (IF hero.decoding = "sync"
         THEN <<Issue("warning", "Images: Performance",
                      <<"Hero image uses decoding=sync{src}", SrcSuffix(hero)>>,
                      <<>>, Some(snapshot.url))>>
         ELSE <<>>)

\* ${x.id ? ` #${x.id}` : ""}
IdSuffix(x) == IF Falsy(x.id) THEN "" ELSE " #" \o x.id

\* ${x.classes ? ` .${String(x.classes).split(" ")[0]}` : ""}; classes is the
\* sequence of the class names of the className string
ClassSuffix(x) == IF x.classes = <<>> THEN "" ELSE " ." \o x.classes[1]

_checkBackgroundImageHero(snapshot) ==
    IF ~Present(snapshot.heroCandidates) THEN <<>>
    ELSE IF Len(Get(snapshot.heroCandidates)) = 0 THEN <<>>
    ELSE
    LET candidates == Get(snapshot.heroCandidates)
    IN  [i \in 1..Len(candidates) |->
            Issue("warning", "Layout: Performance",
                  <<"Large above-fold element uses CSS background-image instead of <img>">>,
                  <<candidates[i].tag, IdSuffix(candidates[i]), ClassSuffix(candidates[i]),
                    candidates[i].dimensions.width, candidates[i].dimensions.height>>,
                  Some(snapshot.url))]

BodyVisibilityIssues(snapshot) ==
    IF ~Present(snapshot.bodyVisibility) THEN <<>>
    ELSE
    LET bv == Get(snapshot.bodyVisibility)
    IN  (IF bv.bodyOpacity = "0" \/ bv.bodyVisibility = "hidden"
         THEN <<Issue("error", "UX: Render Blocking",
                      <<"Page body is hidden (opacity: 0 or visibility: hidden)">>,
                      <<>>, Some(snapshot.url))>>
         ELSE <<>>)
        \o
        (IF bv.htmlOpacity = "0" \/ bv.htmlVisibility = "hidden"
         THEN <<Issue("error", "UX: Render Blocking", <<"HTML root element is hidden">>,
                      <<>>, Some(snapshot.url))>>
         ELSE <<>>)

OverlayIssues(snapshot) ==
    IF ~Present(snapshot.overlays) THEN <<>>
    ELSE
    LET overlays == Get(snapshot.overlays)
    IN  Flatten([i \in 1..Len(overlays) |->
            IF overlays[i].opacity # "0" /\ overlays[i].pointerEvents # "none"
            THEN <<Issue("warning", "UX: Render Blocking",
                         <<"Full-viewport overlay detected ({tag}{id})",
                           overlays[i].tag, IdSuffix(overlays[i])>>,
                         <<overlays[i].position, overlays[i].dimensions.width,
                           overlays[i].dimensions.height, overlays[i].zIndex>>,
                         Some(snapshot.url))>>
            ELSE <<>>])

_checkOverlayBlocking(snapshot) ==
    BodyVisibilityIssues(snapshot) \o OverlayIssues(snapshot)

_checkSkeletonConsistency(snapshot) ==
    IF ~Present(snapshot.skeletons) THEN <<>>
    ELSE IF Len(Get(snapshot.skeletons)) < 2 THEN <<>>
    ELSE
    LET skeletons == Get(snapshot.skeletons)
        styleGroups ==
            _groupByStyles([i \in 1..Len(skeletons) |-> [styles |-> skeletons[i].styles]],
                           SkeletonStyleKeys)
    IN  IF Len(styleGroups) > StyleGroupMax
        THEN <<Issue("info", "UX: Loading States",
                     <<"{n} different skeleton/placeholder styles on this page", Len(styleGroups)>>,
                     <<>>, Some(snapshot.url))>>
        ELSE <<>>

\* mutant: the tap-target minimum one pixel too large
minSize_45 == 44 + 1

minSize == 44

\* Math.min(el.dimensions.width, el.dimensions.height)
SmallerSide(el) == Min(el.dimensions.width, el.dimensions.height)

_checkTapTargets(snapshot) ==
    LET tappable == snapshot.elements.buttons \o snapshot.elements.links
    IN  Flatten([i \in 1..Len(tappable) |->
            IF SmallerSide(tappable[i]) > 0 /\ SmallerSide(tappable[i]) < minSize
            THEN <<Issue("warning", "UX: Tap Targets",
                         <<"Small tap target: <{tag}>{text} is {w}x{h}px",
                           tappable[i].tag,
                           IF Falsy(tappable[i].text) THEN ""
                           ELSE Substring(tappable[i].text, 20),
                           tappable[i].dimensions.width, tappable[i].dimensions.height>>,
                         <<minSize>>, Some(snapshot.url))>>
            ELSE <<>>])

\* mutant: the title attribute is not taken for a name
hasAccessibleName_ignoresTitle(btn) == ~Falsy(btn.ariaLabel) \/ ~Falsy(btn.text)

\* btn.ariaLabel || btn.title || btn.text
hasAccessibleName(btn) == ~Falsy(btn.ariaLabel) \/ ~Falsy(btn.title) \/ ~Falsy(btn.text)

\* btn.tabIndex === undefined || btn.tabIndex < 0
NotFocusable(btn) == ~Present(btn.tabIndex) \/ Get(btn.tabIndex) < 0

_checkRoleButtonAccessibility(buttons, url) ==
    Flatten([i \in 1..Len(buttons) |->
        IF buttons[i].role = "button" \/ buttons[i].tag # "button"
        THEN (IF ~hasAccessibleName(buttons[i])
              THEN <<Issue("error", "Buttons: Accessibility",
                           <<"Interactive element without accessible name: <{tag}>{id}{class}",
                             buttons[i].tag, IdSuffix(buttons[i]), ClassSuffix(buttons[i])>>,
                           <<>>, Some(url))>>
              ELSE <<>>)
             \o
             (IF buttons[i].role = "button" /\ NotFocusable(buttons[i])
              THEN <<Issue("warning", "Buttons: Accessibility",
                           <<"role=button element not keyboard focusable: <{tag}>{id}",
                             buttons[i].tag, IdSuffix(buttons[i])>>,
                           <<>>, Some(url))>>
              ELSE <<>>)
        ELSE <<>>])

\* mutant: thirdPartyResources.length is read without the guard before it
_checkThirdPartySurfaceArea_unguarded(snapshot) ==
    IF ~Present(snapshot.thirdPartyResources) THEN Raised
    ELSE IF Len(Get(snapshot.thirdPartyResources)) > 10
    THEN <<Issue("warning", "Performance: Third Parties",
                 <<"{n} third-party origins found on this page",
                   Len(Get(snapshot.thirdPartyResources))>>,
                 <<>>, Some(snapshot.url))>>
    ELSE <<>>

ThirdPartyMaxOrigins == 10

_checkThirdPartySurfaceArea(snapshot) ==
    IF ~Present(snapshot.thirdPartyResources) THEN <<>>
    ELSE
    LET tps == Get(snapshot.thirdPartyResources)
        hosts == Join([i \in 1..Len(tps) |-> tps[i].host], ", ")
    IN  IF Len(tps) > ThirdPartyMaxOrigins
        THEN <<Issue("warning", "Performance: Third Parties",
                     <<"{n} third-party origins found on this page", Len(tps)>>,
                     <<Substring(hosts, 200)>>, Some(snapshot.url))>>
        ELSE <<>>

\* issues.push(...r): a call that raised leaves nothing to push onto
Push(acc, r) == IF acc = Raised \/ r = Raised THEN Raised ELSE acc \o r

RECURSIVE PushAll(_)
PushAll(rs) ==
    IF rs = <<>> THEN <<>> ELSE Push(PushAll(SubSeq(rs, 1, Len(rs) - 1)), rs[Len(rs)])

\* mutant: the heading and link detectors are called in the other order
PageDetectors_linksBeforeHeadings(snapshot) ==
    <<
        _checkButtonConsistency(snapshot.elements.buttons, snapshot.url),
        _checkInputConsistency(snapshot.elements.inputs, snapshot.url),
        _checkLinkConsistency(snapshot.elements.links, snapshot.url),
        _checkHeadingHierarchy(snapshot.elements.headings, snapshot.url),
        _checkImageAccessibility(snapshot.elements.images, snapshot.url),
        _checkAboveFoldLazyImages(snapshot),
        _checkHeroImageHints(snapshot),
        _checkBackgroundImageHero(snapshot),
        _checkOverlayBlocking(snapshot),
        _checkSkeletonConsistency(snapshot),
        _checkTapTargets(snapshot),
        _checkRoleButtonAccessibility(snapshot.elements.buttons, snapshot.url),
        _checkThirdPartySurfaceArea(snapshot) >>

\* the results of the detectors, in the order analyzePage calls them
PageDetectors(snapshot) ==
    <<
        _checkButtonConsistency(snapshot.elements.buttons, snapshot.url),
        _checkInputConsistency(snapshot.elements.inputs, snapshot.url),
        _checkHeadingHierarchy(snapshot.elements.headings, snapshot.url),
        _checkLinkConsistency(snapshot.elements.links, snapshot.url),
        _checkImageAccessibility(snapshot.elements.images, snapshot.url),
        _checkAboveFoldLazyImages(snapshot),
        _checkHeroImageHints(snapshot),
        _checkBackgroundImageHero(snapshot),
        _checkOverlayBlocking(snapshot),
        _checkSkeletonConsistency(snapshot),
        _checkTapTargets(snapshot),
        _checkRoleButtonAccessibility(snapshot.elements.buttons, snapshot.url),
        _checkThirdPartySurfaceArea(snapshot) >>

\* mutant: the detectors push onto an array shared by all calls
analyzePage_sharedIssues(snapshot) == PushAll(<<issues>> \o PageDetectors(snapshot))

\* `const issues = []`, then one push per detector
analyzePage(snapshot) == PushAll(PageDetectors(snapshot))

----------------------------------------------------------------------------
(* Cross-page checks *)

ButtonSigs(snap) ==
    Uniq([i \in 1..Len(snap.elements.buttons) |->
             StyleKey(snap.elements.buttons[i], ButtonStyleKeys)])

\* allStyles.set(snap.url, sigs): the entry of a url is that of the last
\* snapshot carrying it, at the place the url was first inserted
LastWithUrl(snaps, url) ==
    snaps[CHOOSE i \in 1..Len(snaps) :
              /\ snaps[i].url = url
              /\ \A j \in (i + 1)..Len(snaps) : snaps[j].url # url]

DriftMaxSignatures == 3

_crossPageButtonConsistency(snaps) ==
    LET urls == Uniq([i \in 1..Len(snaps) |-> snaps[i].url])
        allSigs == Uniq(Flatten([k \in 1..Len(urls) |-> ButtonSigs(LastWithUrl(snaps, urls[k]))]))
    IN  IF Len(allSigs) > DriftMaxSignatures
        THEN <<Issue("warning", "Cross-Page: Buttons",
                     <<"{n} different button styles found across {m} pages", Len(allSigs), Len(snaps)>>,
                     <<>>, Absent)>>
        ELSE <<>>

\* mutant: the issue carries the category and the url of a single-page issue
_crossPageInputConsistency_pageScoped(snaps) ==
    IF Len(Uniq(Flatten([i \in 1..Len(snaps) |->
                   [j \in 1..Len(snaps[i].elements.inputs) |->
                       StyleKey(snaps[i].elements.inputs[j], InputStyleKeys)]])))
           > 3
    THEN <<Issue("warning", "Inputs",
                 <<"{n} different input styles found across {m} pages", 4, Len(snaps)>>,
                 <<>>, Some(snaps[1].url))>>
    ELSE <<>>

_crossPageInputConsistency(snaps) ==
    LET allSigs == Uniq(Flatten([i \in 1..Len(snaps) |->
                       [j \in 1..Len(snaps[i].elements.inputs) |->
                           StyleKey(snaps[i].elements.inputs[j], InputStyleKeys)]]))
    IN  IF Len(allSigs) > DriftMaxSignatures
        THEN <<Issue("warning", "Cross-Page: Inputs",
                     <<"{n} different input styles found across {m} pages", Len(allSigs), Len(snaps)>>,
                     <<>>, Absent)>>
        ELSE <<>>

_crossPageHeadingConsistency(snaps) ==
    LET sizesOf(snap, level) ==
            LET hs == SelectSeq(snap.elements.headings, LAMBDA h : h.tag = HeadingTag(level))
            IN [j \in 1..Len(hs) |-> hs[j].styles.fontSize]
        fontSizes(level) == Uniq(Flatten([i \in 1..Len(snaps) |-> sizesOf(snaps[i], level)]))
    IN  Flatten([level \in 1..3 |->
            IF Len(fontSizes(level)) > 1
            THEN <<Issue("warning", "Cross-Page: Headings",
                         <<"h{level} font size varies across pages: {list}",
                           level, Join(fontSizes(level), ", ")>>,
                         <<level>>, Absent)>>
            ELSE <<>>])

\* Object.values(snap.elements), in the order the extraction creates the categories
AllElements(snap) ==
    snap.elements.buttons \o snap.elements.inputs \o snap.elements.headings
        \o snap.elements.links \o snap.elements.images

FontMaxFamilies == 3

_crossPageFontConsistency(snaps) ==
    LET familiesOf(snap) ==
            LET els == SelectSeq(AllElements(snap), LAMBDA el : ~Falsy(el.styles.fontFamily))
            IN [j \in 1..Len(els) |-> els[j].styles.fontFamily]
        fontFamilies == Uniq(Flatten([i \in 1..Len(snaps) |-> familiesOf(snaps[i])]))
    IN  IF Len(fontFamilies) > FontMaxFamilies
        THEN <<Issue("info", "Cross-Page: Typography",
                     <<"{n} different font families used across pages", Len(fontFamilies)>>,
                     <<Join([k \in 1..Len(fontFamilies) |-> Substring(fontFamilies[k], 40)], "; ")>>,
                     Absent)>>
        ELSE <<>>

\* s.primaryH1Text || ""
H1Text(snap) == IF Present(snap.primaryH1Text) THEN Get(snap.primaryH1Text) ELSE ""

\* mutant: the title test runs whether or not a snapshot is of a single-page app
_crossPageStaleRouteMetadata_noSpaGuard(snaps) ==
    LET uniqueUrls == Uniq([i \in 1..Len(snaps) |-> snaps[i].url])
        uniqueTitles == Uniq([i \in 1..Len(snaps) |-> snaps[i].title])
    IN  IF Len(uniqueUrls) < 2 THEN <<>>
        ELSE IF Len(uniqueTitles) = 1
        THEN <<Issue("warning", "Cross-Page: SPA Navigation",
                     <<"All {n} pages share the same title: {title}",
                       Len(snaps), Substring(uniqueTitles[1], 60)>>,
                     <<>>, Absent)>>
        ELSE <<>>

_crossPageStaleRouteMetadata(snaps) ==
    LET uniqueUrls == Uniq([i \in 1..Len(snaps) |-> snaps[i].url])
        uniqueTitles == Uniq([i \in 1..Len(snaps) |-> snaps[i].title])
        h1Texts == [i \in 1..Len(snaps) |-> H1Text(snaps[i])]
        uniqueH1s == Uniq(SelectSeq(h1Texts, LAMBDA t : t # ""))
    IN  IF ~\E i \in 1..Len(snaps) : snaps[i].isSPA THEN <<>>
        ELSE IF Len(uniqueUrls) < 2 THEN <<>>
        ELSE
        (IF Len(uniqueTitles) = 1 /\ Len(uniqueUrls) > 1
         THEN <<Issue("warning", "Cross-Page: SPA Navigation",
                      <<"All {n} pages share the same title: {title}",
                        Len(snaps), Substring(uniqueTitles[1], 60)>>,
                      <<>>, Absent)>>
         ELSE <<>>)
        \o
        (IF Len(uniqueH1s) = 1 /\ Len(uniqueUrls) > 2
         THEN <<Issue("info", "Cross-Page: SPA Navigation",
                      <<"All pages share the same h1: {h1}", Substring(uniqueH1s[1], 60)>>,
                      <<>>, Absent)>>
         ELSE <<>>)

(* A URL string is the record of the components `new URL` parses it into:
   origin, pathname, the (name, value) pairs of its query in order, and hash;
   a string `new URL` rejects has valid = FALSE and its text in origin. *)
Url(origin, pathname, search, hash) ==
    [valid |-> TRUE, origin |-> origin, pathname |-> pathname, search |-> search, hash |-> hash]

trackingParams ==
    <<"utm_source", "utm_medium", "utm_campaign", "utm_term", "utm_content", "gclid",
      "fbclid", "msclkid", "mc_cid", "mc_eid", "ref", "source">>

\* the query parameter names of the inputs, in code-unit order
ParamOrder == <<"a", "b", "fbclid", "gclid", "ref", "utm_medium", "utm_source">>

ParamRank(name) == CHOOSE r \in 1..Len(ParamOrder) : ParamOrder[r] = name

\* URLSearchParams.sort(): stable, by name
RECURSIVE SortParams(_)
SortParams(ps) ==
    IF Len(ps) <= 1 THEN ps
    ELSE LET init == SortParams(SubSeq(ps, 1, Len(ps) - 1))
             last == ps[Len(ps)]
             keep == Cardinality({i \in 1..Len(init) :
                                     ParamRank(init[i][1]) <= ParamRank(last[1])})
         IN SubSeq(init, 1, keep) \o <<last>> \o SubSeq(init, keep + 1, Len(init))

\* u.origin + u.pathname + u.search, as the record of the three
stripTracking(urlStr) ==
    IF ~urlStr.valid THEN urlStr
    ELSE [valid |-> TRUE, origin |-> urlStr.origin, pathname |-> urlStr.pathname,
          search |-> SortParams(SelectSeq(urlStr.search,
                                          LAMBDA p : ~Contains(trackingParams, p[1]))),
          hash |-> ""]

\* snap.fullUrl || snap.url
FullUrl(snap) == IF Present(snap.fullUrl) THEN Get(snap.fullUrl) ELSE snap.url

\* mutant: the warning is pushed while the snapshots are walked, once for each
\* snapshot whose normalized URL another snapshot has too
_crossPageUrlParamDuplication_perSnapshot(snaps) ==
    LET cleans == [i \in 1..Len(snaps) |-> stripTracking(FullUrl(snaps[i]))]
        urlsOf(clean) == SelectSeq(cleans, LAMBDA c : c = clean)
    IN  Flatten([i \in 1..Len(snaps) |->
            IF Len(urlsOf(cleans[i])) > 1
            THEN <<Issue("warning", "Cross-Page: URL Hygiene",
                         <<"{n} snapshots map to the same URL after stripping tracking params",
                           Len(urlsOf(cleans[i]))>>,
                         <<cleans[i]>>, Absent)>>
            ELSE <<>>])

_crossPageUrlParamDuplication(snaps) ==
    LET cleans == [i \in 1..Len(snaps) |-> stripTracking(FullUrl(snaps[i]))]
        normalized == Uniq(cleans)
        urlsOf(clean) == SelectSeq(cleans, LAMBDA c : c = clean)
    IN  Flatten([k \in 1..Len(normalized) |->
            IF Len(urlsOf(normalized[k])) > 1
            THEN <<Issue("warning", "Cross-Page: URL Hygiene",
                         <<"{n} snapshots map to the same URL after stripping tracking params",
                           Len(urlsOf(normalized[k]))>>,
                         <<normalized[k]>>, Absent)>>
            ELSE <<>>])

_crossPageSameContentDifferentUrl(snaps) ==
    LET withSig == SelectSeq(snaps, LAMBDA s : Present(s.contentSignature)
                                                /\ ~Falsy(Get(s.contentSignature)))
        sigs == Uniq([i \in 1..Len(withSig) |-> Get(withSig[i].contentSignature)])
        urlsOf(sig) ==
            LET of == SelectSeq(withSig, LAMBDA s : Get(s.contentSignature) = sig)
            IN Uniq([i \in 1..Len(of) |-> of[i].url])
    IN  Flatten([k \in 1..Len(sigs) |->
            IF Len(urlsOf(sigs[k])) > 1
            THEN <<Issue("warning", "Cross-Page: Content Duplication",
                         <<"{n} different URLs serve effectively identical content",
                           Len(urlsOf(sigs[k]))>>,
                         urlsOf(sigs[k]), Absent)>>
            ELSE <<>>])

RECURSIVE MinOf(_)
MinOf(ns) == IF Len(ns) = 1 THEN ns[1] ELSE Min(MinOf(SubSeq(ns, 1, Len(ns) - 1)), ns[Len(ns)])

RECURSIVE MaxOf(_)
MaxOf(ns) ==
    IF Len(ns) = 1 THEN ns[1]
    ELSE LET m == MaxOf(SubSeq(ns, 1, Len(ns) - 1))
         IN IF ns[Len(ns)] > m THEN ns[Len(ns)] ELSE m

\* Array.prototype.find: the first element satisfying the test
FirstIndex(s, Test(_)) == CHOOSE i \in 1..Len(s) : Test(s[i]) /\ \A j \in 1..(i - 1) : ~Test(s[j])

ThirdPartyMaxDrift == 5

_crossPageThirdPartyDrift(snaps) ==
    LET with == SelectSeq(snaps, LAMBDA s : Present(s.thirdPartyResources))
        pageCounts == [i \in 1..Len(with) |->
                          [url |-> with[i].url, count |-> Len(Get(with[i].thirdPartyResources))]]
        counts == [i \in 1..Len(pageCounts) |-> pageCounts[i].count]
    IN  IF Len(pageCounts) < 2 THEN <<>>
        ELSE
        LET min == MinOf(counts)
            max == MaxOf(counts)
            minPage == pageCounts[FirstIndex(pageCounts, LAMBDA p : p.count = min)]
            maxPage == pageCounts[FirstIndex(pageCounts, LAMBDA p : p.count = max)]
        IN  IF max > 0 /\ max - min > ThirdPartyMaxDrift
            THEN <<Issue("warning", "Cross-Page: Third Parties",
                         <<"Third-party count varies widely: {min} to {max} across pages", min, max>>,
                         <<min, minPage.url, max, maxPage.url>>, Absent)>>
            ELSE <<>>

\* hidden / total > 0.3, the quotient of two non-negative counts
HiddenRatioHigh(hidden, total) ==
    IF total = 0 THEN hidden > 0 ELSE 10 * hidden > 3 * total

\* Math.round(hidden / total * 100); <<>> where the quotient is not finite
HiddenPercent(hidden, total) ==
    IF total = 0 THEN Absent ELSE Some((200 * hidden + total) \div (2 * total))

\* mutant: two samples are taken for a trend
DomBloatMinSamples_two == 3 - 1

DomBloatMinSamples == 3

HiddenMinCount == 100

_crossPageDomBloat(snaps) ==
    LET withStats == SelectSeq(snaps, LAMBDA s : Present(s.domStats))
        counts == [i \in 1..Len(withStats) |-> Get(withStats[i].domStats).totalElementCount]
    IN  IF Len(withStats) < 2 THEN <<>>
        ELSE
        LET first == counts[1]
            last == counts[Len(counts)]
            monotonic == \A i \in 2..Len(counts) : ~(counts[i] < counts[i - 1])
            lastStats == Get(withStats[Len(withStats)].domStats)
        IN  (IF monotonic /\ 10 * last > 13 * first /\ Len(counts) >= DomBloatMinSamples
             THEN <<Issue("warning", "Cross-Page: SPA Health",
                          <<"DOM size grew from {first} to {last} elements across {n} navigations",
                            first, last, Len(counts)>>,
                          <<>>, Absent)>>
             ELSE <<>>)
            \o
            (IF /\ HiddenRatioHigh(lastStats.hiddenElementCount, lastStats.totalElementCount)
                /\ lastStats.hiddenElementCount > HiddenMinCount
             THEN <<Issue("info", "Cross-Page: SPA Health",
                          <<"{p}% of DOM elements are hidden ({hidden} of {total})",
                            HiddenPercent(lastStats.hiddenElementCount, lastStats.totalElementCount),
                            lastStats.hiddenElementCount, lastStats.totalElementCount>>,
                          <<>>, Absent)>>
             ELSE <<>>)

\* mutant: one page with skeletons is enough
_crossPageSkeletonConsistency_noPageGuard(snaps) ==
    LET withSkeletons == SelectSeq(snaps, LAMBDA s : Present(s.skeletons)
                                                      /\ Len(Get(s.skeletons)) > 0)
        allSigs == Uniq(Flatten([i \in 1..Len(withSkeletons) |->
                       [j \in 1..Len(Get(withSkeletons[i].skeletons)) |->
                           StyleKey(Get(withSkeletons[i].skeletons)[j], SkeletonStyleKeys)]]))
    IN  IF Len(allSigs) > DriftMaxSignatures
        THEN <<Issue("warning", "Cross-Page: Loading States",
                     <<"{n} different skeleton styles found across {m} pages",
                       Len(allSigs), Len(withSkeletons)>>,
                     <<>>, Absent)>>
        ELSE <<>>

_crossPageSkeletonConsistency(snaps) ==
    LET withSkeletons == SelectSeq(snaps, LAMBDA s : Present(s.skeletons)
                                                      /\ Len(Get(s.skeletons)) > 0)
        allSigs == Uniq(Flatten([i \in 1..Len(withSkeletons) |->
                       [j \in 1..Len(Get(withSkeletons[i].skeletons)) |->
                           StyleKey(Get(withSkeletons[i].skeletons)[j], SkeletonStyleKeys)]]))
    IN  IF Len(withSkeletons) < 2 THEN <<>>
        ELSE IF Len(allSigs) > DriftMaxSignatures
        THEN <<Issue("warning", "Cross-Page: Loading States",
                     <<"{n} different skeleton styles found across {m} pages",
                       Len(allSigs), Len(withSkeletons)>>,
                     <<>>, Absent)>>
        ELSE <<>>

\* Array.prototype.sort((a, b) => a - b)
RECURSIVE SortNumbers(_)
SortNumbers(ns) ==
    IF Len(ns) <= 1 THEN ns
    ELSE LET init == SortNumbers(SubSeq(ns, 1, Len(ns) - 1))
             last == ns[Len(ns)]
             keep == Cardinality({i \in 1..Len(init) : init[i] <= last})
         IN SubSeq(init, 1, keep) \o <<last>> \o SubSeq(init, keep + 1, Len(init))

\* the sorted positive sizes of the buttons and links of snap
TapSizes(snap) ==
    LET tappable == snap.elements.buttons \o snap.elements.links
    IN SortNumbers(SelectSeq([i \in 1..Len(tappable) |-> SmallerSide(tappable[i])],
                             LAMBDA n : n > 0))

\* sizes[Math.floor(sizes.length / 2)], indices counted from 0
Median(sizes) == sizes[(Len(sizes) \div 2) + 1]

_crossPageTapTargetDrift(snaps) ==
    LET measured == SelectSeq(snaps, LAMBDA s : Len(TapSizes(s)) > 0)
        medians == [i \in 1..Len(measured) |-> Median(TapSizes(measured[i]))]
    IN  IF Len(snaps) < 2 THEN <<>>
        ELSE IF Len(medians) < 2 THEN <<>>
        ELSE
        LET min == MinOf(medians)
            max == MaxOf(medians)
        IN  IF max > 0 /\ min > 0 /\ max > 2 * min
            THEN <<Issue("info", "Cross-Page: Tap Targets",
                         <<"Median interactive element size varies widely: {min}px to {max}px across pages",
                           min, max>>,
                         <<>>, Absent)>>
            ELSE <<>>

\* the results of the detectors, in the order compareSnapshots calls them
CrossDetectors(snaps) ==
    <<
        _crossPageButtonConsistency(snaps),
        _crossPageInputConsistency(snaps),
        _crossPageHeadingConsistency(snaps),
        _crossPageFontConsistency(snaps),
        _crossPageStaleRouteMetadata(snaps),
        _crossPageUrlParamDuplication(snaps),
        _crossPageSameContentDifferentUrl(snaps),
        _crossPageThirdPartyDrift(snaps),
        _crossPageDomBloat(snaps),
        _crossPageSkeletonConsistency(snaps),
        _crossPageTapTargetDrift(snaps) >>

\* mutant: the detectors run whatever the number of snapshots
compareSnapshots_unguarded(snaps) == PushAll(CrossDetectors(snaps))

compareSnapshots(snaps) ==
    IF Len(snaps) < 2 THEN <<>> ELSE PushAll(CrossDetectors(snaps))

----------------------------------------------------------------------------
(* The snapshots the extraction supplies (src/content_script.js) *)

DefaultStyles ==
    [fontSize |-> "16px", fontFamily |-> "Arial", borderRadius |-> "4px", padding |-> "8px",
     border |-> "1px solid", color |-> "blue", backgroundColor |-> "white"]

\* the record extractElements builds for one element; a property its category
\* does not carry is undefined
Element(tag) ==
    [tag |-> tag, text |-> "", classes |-> <<>>, id |-> "", styles |-> DefaultStyles,
     dimensions |-> [width |-> 100, height |-> 50],
     type |-> Undefined, placeholder |-> Undefined, href |-> Undefined,
     src |-> Undefined, alt |-> Undefined, loading |-> Undefined,
     fetchPriority |-> Undefined, decoding |-> Undefined, rectTop |-> 0, rectBottom |-> 0,
     role |-> Undefined, ariaLabel |-> Undefined, tabIndex |-> Absent, title |-> Undefined]

Button(tag, text) ==
    [Element(tag) EXCEPT !.text = text, !.role = "", !.ariaLabel = "", !.title = "",
                         !.tabIndex = Some(0)]

Input(type, placeholder) ==
    [Element("input") EXCEPT !.type = type, !.placeholder = placeholder]

Heading(tag, text) == [Element(tag) EXCEPT !.text = text]

Link(text) == [Element("a") EXCEPT !.text = text, !.href = "https://a.com/p"]

Image(src, alt) ==
    [Element("img") EXCEPT !.src = src, !.alt = alt, !.loading = "", !.fetchPriority = "",
                           !.decoding = "", !.rectTop = 0, !.rectBottom = 300]

WithStyle(el, key, value) == [el EXCEPT !.styles[key] = value]

WithSize(el, w, h) == [el EXCEPT !.dimensions = [width |-> w, height |-> h]]

Skeleton(backgroundColor, borderRadius) ==
    [tag |-> "div", classes |-> <<"skeleton">>, id |-> "",
     styles |-> [backgroundColor |-> backgroundColor, borderRadius |-> borderRadius,
                 animationName |-> "pulse"],
     dimensions |-> [width |-> 200, height |-> 20]]

NoElements == [buttons |-> <<>>, inputs |-> <<>>, headings |-> <<>>, links |-> <<>>, images |-> <<>>]

VisibleBody ==
    [bodyOpacity |-> "1", bodyVisibility |-> "visible", htmlOpacity |-> "1", htmlVisibility |-> "visible"]

\* the response to EXTRACT_ELEMENTS for a page with no element and nothing to report
Snapshot(url) ==
    [url |-> url, fullUrl |-> Some(url), title |-> "Home", isSPA |-> FALSE,
     elements |-> NoElements,
     viewportHeight |-> Some(800), primaryH1Text |-> Some(""), contentSignature |-> Some(""),
     domStats |-> Some([totalElementCount |-> 10, hiddenElementCount |-> 0]),
     overlays |-> Some(<<>>), heroCandidates |-> Some(<<>>), skeletons |-> Some(<<>>),
     thirdPartyResources |-> Some(<<>>), bodyVisibility |-> Some(VisibleBody)]

WithElements(snap, category, els) == [snap EXCEPT !.elements[category] = els]

UrlA == Url("https://a.com", "/a", <<>>, "")

UrlB == Url("https://a.com", "/b", <<>>, "")

----------------------------------------------------------------------------
(* The engine's calls, applied to the caller's snapshot list *)

NoCall == <<"none", 0>>

\* no panel is connected and nothing has been stored
NoPanel ==
    /\ panelPorts = {}
    /\ storage = Absent
    /\ pending = <<>>
    /\ handlers = <<>>
    /\ inbox = <<>>
    /\ panel = <<>>
    /\ clock = 0
    /\ cleared = {}
    /\ written = {}

\* _groupByStyles leaves its argument as it was: groups.get(key).push(el) pushes
\* onto the array the Map holds for the key, created two lines above
GroupedArgument(elements) == elements

RECURSIVE SortBySize(_)
SortBySize(els) ==
    IF Len(els) <= 1 THEN els
    ELSE LET init == SortBySize(SubSeq(els, 1, Len(els) - 1))
             last == els[Len(els)]
             keep == Cardinality({i \in 1..Len(init) : SmallerSide(init[i]) <= SmallerSide(last)})
         IN SubSeq(init, 1, keep) \o <<last>> \o SubSeq(init, keep + 1, Len(init))

\* mutant: sort() is called on snap.elements.buttons itself
TapDriftArgument_sortsButtons(snap) == [snap EXCEPT !.elements.buttons = SortBySize(@)]

\* _crossPageTapTargetDrift leaves snap as it was: sort() reorders the array that
\* map() and filter() built from the spread copy `tappable`
TapDriftArgument(snap) == snap

\* a snapshot after analyzePage(snapshot) returned
AnalyzePageArgument(snapshot) ==
    [snapshot EXCEPT !.elements.buttons = GroupedArgument(@),
                     !.elements.inputs = GroupedArgument(@)]

\* the list after compareSnapshots(snaps) returned
CompareSnapshotsArgument(snaps) == [i \in 1..Len(snaps) |-> TapDriftArgument(snaps[i])]

AnalyzePage(i) ==
    /\ i \in 1..Len(snapshots)
    /\ issues' = analyzePage(snapshots[i])
    /\ previous' = IF lastCall = <<"analyzePage", i>> THEN Some(issues) ELSE Absent
    /\ lastCall' = <<"analyzePage", i>>
    /\ snapshots' = [snapshots EXCEPT ![i] = AnalyzePageArgument(@)]
    /\ UNCHANGED extension

CompareSnapshots ==
    /\ issues' = compareSnapshots(snapshots)
    /\ previous' = IF lastCall = <<"compareSnapshots", 0>> THEN Some(issues) ELSE Absent
    /\ lastCall' = <<"compareSnapshots", 0>>
    /\ snapshots' = CompareSnapshotsArgument(snapshots)
    /\ UNCHANGED extension

\* the caller receives one more snapshot from the extraction
MaxSnapshots == 3

ExtractElements(s) ==
    /\ Len(snapshots) < MaxSnapshots
    /\ snapshots' = Append(snapshots, s)
    /\ issues' = <<>>
    /\ previous' = Absent
    /\ lastCall' = NoCall
    /\ UNCHANGED extension

----------------------------------------------------------------------------
(* Spec: pages that differ in the style signatures of one category *)

FontSizes == <<"12px", "14px", "16px", "18px">>

Families == <<"Arial", "Georgia", "Courier", "Verdana">>

Colors == <<"white", "grey", "silver", "black">>

\* the signatures a page uses, as indices into the value lists above
Palettes == {<<2, 1>>, <<4, 3>>}

\* the k-th button is 8px smaller than the one before it
DriftButtons(p) ==
    [k \in 1..Len(p) |->
        WithSize(WithStyle(Button("button", "OK"), "fontSize", FontSizes[p[k]]),
                 64 - 8 * k, 64 - 8 * k)]

DriftInputs(p) ==
    [k \in 1..Len(p) |-> WithStyle(Input("email", ""), "fontSize", FontSizes[p[k]])]

DriftSkeletons(p) == [k \in 1..Len(p) |-> Skeleton(Colors[p[k]], "4px")]

DriftHeadings(p) ==
    [k \in 1..Len(p) |-> WithStyle(Heading("h1", "Title"), "fontFamily", Families[p[k]])]

DriftSnaps ==
    {WithElements(Snapshot(UrlA), "buttons", DriftButtons(<<2, 1>>)),
     WithElements(Snapshot(UrlB), "buttons", DriftButtons(<<4, 3>>)),
     WithElements(Snapshot(UrlA), "buttons", DriftButtons(<<4, 3, 2, 1>>))}
    \cup {WithElements(Snapshot(UrlA), "inputs", DriftInputs(p)) : p \in Palettes}
    \cup {[WithElements(Snapshot(UrlA), "headings", DriftHeadings(p)) EXCEPT
               !.skeletons = Some(DriftSkeletons(p))] : p \in Palettes}

Init ==
    /\ snapshots = <<>>
    /\ issues = <<>>
    /\ previous = Absent
    /\ lastCall = NoCall
    /\ NoPanel

Next ==
    \/ \E s \in DriftSnaps : ExtractElements(s)
    \/ \E i \in 1..MaxSnapshots : AnalyzePage(i)
    \/ CompareSnapshots

Spec == Init /\ [][Next]_vars

----------------------------------------------------------------------------
(* SpecPage: one page, drawn from families that each vary one detector's input *)

\* all sequences over S of length at most n
SeqsUpTo(S, n) == UNION {[1..k -> S] : k \in 0..n}

PagesWith(category, lists) == {WithElements(Snapshot(UrlA), category, els) : els \in lists}

MaxButtons == 3

ButtonVariants ==
    {WithStyle(WithStyle(Button("button", "OK"), "fontSize", v[1]), "padding", v[2]) :
        v \in {<<"14px", "4px">>, <<"16px", "4px">>, <<"14px", "8px">>, <<"18px", "4px">>}}

MaxHeadings == 3

HeadingVariants == {Heading(t, "Section") : t \in {"h1", "h2", "h3", "h4"}}

MaxTappable == 1

TapDims == {0, 43, 44}

TapButtons == {WithSize(Button("button", "OK"), w, h) : w \in TapDims, h \in TapDims}

TapLinks == {WithSize(Link("More"), w, h) : w \in TapDims, h \in TapDims}

TapPages ==
    {[Snapshot(UrlA) EXCEPT !.elements.buttons = bs, !.elements.links = ls] :
        bs \in SeqsUpTo(TapButtons, MaxTappable), ls \in SeqsUpTo(TapLinks, MaxTappable)}

MaxRoleButtons == 1

Names == {"", "Close"}

RoleButtons ==
    {[Button(tag, text) EXCEPT !.role = role, !.ariaLabel = ariaLabel, !.title = title,
                               !.tabIndex = tabIndex] :
        tag \in {"button", "div"}, text \in Names, role \in {"", "button"},
        ariaLabel \in Names, title \in Names, tabIndex \in {Absent, Some(0)}}

PageSnaps ==
    PagesWith("buttons", SeqsUpTo(ButtonVariants, MaxButtons))
    \cup PagesWith("headings", SeqsUpTo(HeadingVariants, MaxHeadings))
    \cup TapPages
    \cup PagesWith("buttons", SeqsUpTo(RoleButtons, MaxRoleButtons))

InitPage ==
    /\ snapshots \in {<<s>> : s \in PageSnaps}
    /\ issues = <<>>
    /\ previous = Absent
    /\ lastCall = NoCall
    /\ NoPanel

NextPage ==
    \/ \E i \in 1..MaxSnapshots : AnalyzePage(i)
    \/ CompareSnapshots

SpecPage == InitPage /\ [][NextPage]_vars

----------------------------------------------------------------------------
(* SpecOptional: three pages on which every detector reports, with optional
   fields left out of the first page only, or of all three *)

OptionalFields ==
    {"viewportHeight", "heroCandidates", "overlays", "skeletons", "thirdPartyResources",
     "domStats", "bodyVisibility", "contentSignature", "primaryH1Text"}

Omit(snap, fields) == [f \in DOMAIN snap |-> IF f \in fields THEN Absent ELSE snap[f]]

AbsentFields(snap) == {f \in OptionalFields : ~Present(snap[f])}

UrlC == Url("https://a.com", "/c", <<>>, "")

Hosts(n) == [i \in 1..n |-> [host |-> "cdn" \o ToString(i) \o ".net", count |-> 1]]

HeroImage ==
    [WithSize(Image("https://a.com/hero.png", ""), 400, 400) EXCEPT
        !.loading = "lazy", !.decoding = "sync"]

HeroCandidate ==
    [tag |-> "section", classes |-> <<"hero", "dark">>, id |-> "top", rectTop |-> 0,
     dimensions |-> [width |-> 1200, height |-> 600]]

Overlay ==
    [tag |-> "div", classes |-> <<"modal">>, id |-> "consent", zIndex |-> "1000",
     opacity |-> "1", backgroundColor |-> "black", pointerEvents |-> "auto",
     position |-> "fixed", dimensions |-> [width |-> 1280, height |-> 800]]

HiddenBody ==
    [bodyOpacity |-> "0", bodyVisibility |-> "visible", htmlOpacity |-> "1", htmlVisibility |-> "hidden"]

OptBase(i) ==
    CASE i = 1 ->
           [Snapshot(UrlA) EXCEPT
               !.isSPA = TRUE,
               !.elements.images = <<HeroImage>>,
               !.elements.buttons = <<WithSize(Button("div", ""), 30, 30)>>,
               !.heroCandidates = Some(<<HeroCandidate>>),
               !.overlays = Some(<<Overlay>>),
               !.bodyVisibility = Some(HiddenBody),
               !.skeletons = Some(DriftSkeletons(<<1, 2, 3>>)),
               !.thirdPartyResources = Some(Hosts(11)),
               !.domStats = Some([totalElementCount |-> 100, hiddenElementCount |-> 0]),
               !.contentSignature = Some("Welcome::1,0,0,1"),
               !.primaryH1Text = Some("Welcome")]
      [] i = 2 ->
           [Snapshot(UrlB) EXCEPT
               !.isSPA = TRUE,
               !.skeletons = Some(DriftSkeletons(<<4>>)),
               !.domStats = Some([totalElementCount |-> 200, hiddenElementCount |-> 0]),
               !.contentSignature = Some("Welcome::1,0,0,1"),
               !.primaryH1Text = Some("Welcome")]
      [] i = 3 ->
           [Snapshot(UrlC) EXCEPT
               !.isSPA = TRUE,
               !.elements.buttons = <<WithSize(Button("button", "OK"), 90, 90)>>,
               !.domStats = Some([totalElementCount |-> 400, hiddenElementCount |-> 150]),
               !.contentSignature = Some("About::1,0,0,0"),
               !.primaryH1Text = Some("Welcome")]

OptBases == <<OptBase(1), OptBase(2), OptBase(3)>>

InitOptional ==
    /\ snapshots \in
         {[i \in 1..3 |-> Omit(OptBase(i), IF i = 1 \/ everywhere THEN fields ELSE {})] :
             fields \in SUBSET OptionalFields, everywhere \in BOOLEAN}
    /\ issues = <<>>
    /\ previous = Absent
    /\ lastCall = NoCall
    /\ NoPanel

SpecOptional == InitOptional /\ [][NextPage]_vars

----------------------------------------------------------------------------
(* Claims *)

Called(name) == lastCall[1] = name

\* the snapshot the last analyzePage call was given
Analyzed == snapshots[lastCall[2]]

WithTemplate(iss, template) == SelectSeq(iss, LAMBDA x : x.message[1] = template)

Emits(iss, category, severity) ==
    \E k \in 1..Len(iss) : iss[k].category = category /\ iss[k].severity = severity

UnionDetectors ==
    {<<"Cross-Page: Buttons", "warning">>, <<"Cross-Page: Inputs", "warning">>,
     <<"Cross-Page: Typography", "info">>, <<"Cross-Page: Loading States", "warning">>}

\* C1 (as claimed): when a snapshot is appended to a list of at least 2, every
\* set-union-based drift issue (buttons, inputs, font families, skeletons) that
\* compareSnapshots reported for the list is still reported for the longer list.
C1_MonotonicInputs ==
    [][(/\ Len(snapshots) >= 2
        /\ Len(snapshots') = Len(snapshots) + 1
        /\ SubSeq(snapshots', 1, Len(snapshots)) = snapshots)
       => \A d \in UnionDetectors :
              Emits(compareSnapshots(snapshots), d[1], d[2])
                  => Emits(compareSnapshots(snapshots'), d[1], d[2])]_vars

\* C2: compareSnapshots on a list of 0 or 1 snapshots returns the empty sequence.
C2_FewerThanTwoSnapshots ==
    (Called("compareSnapshots") /\ Len(snapshots) < 2) => issues = <<>>

\* a single snapshot whose buttons alone exceed the drift threshold was compared
C2_Witness ==
    /\ Called("compareSnapshots")
    /\ Len(snapshots) = 1
    /\ Len(ButtonSigs(snapshots[1])) > DriftMaxSignatures
    /\ issues = <<>>

Needs ==
    {<<"viewportHeight", "Above-the-fold image uses loading=lazy{src}">>,
     <<"viewportHeight", "Largest above-fold image missing fetchpriority=high{src}">>,
     <<"viewportHeight", "Hero image uses decoding=sync{src}">>,
     <<"heroCandidates", "Large above-fold element uses CSS background-image instead of <img>">>,
     <<"bodyVisibility", "Page body is hidden (opacity: 0 or visibility: hidden)">>,
     <<"bodyVisibility", "HTML root element is hidden">>,
     <<"overlays", "Full-viewport overlay detected ({tag}{id})">>,
     <<"skeletons", "{n} different skeleton/placeholder styles on this page">>,
     <<"thirdPartyResources", "{n} third-party origins found on this page">>,
     <<"primaryH1Text", "All pages share the same h1: {h1}">>,
     <<"contentSignature", "{n} different URLs serve effectively identical content">>,
     <<"thirdPartyResources", "Third-party count varies widely: {min} to {max} across pages">>,
     <<"domStats", "DOM size grew from {first} to {last} elements across {n} navigations">>,
     <<"domStats", "{p}% of DOM elements are hidden ({hidden} of {total})">>,
     <<"skeletons", "{n} different skeleton styles found across {m} pages">>}

NeedsAny(issue, fields) == \E f \in fields : <<f, issue.message[1]>> \in Needs

Without(iss, fields) == SelectSeq(iss, LAMBDA x : ~NeedsAny(x, fields))

\* C5: whatever optional fields are absent, neither call raises; analyzePage
\* returns what it returns for the complete snapshot less the issues of the
\* detectors that read an absent field; compareSnapshots reports nothing from a
\* detector whose field is absent from every snapshot, and what it reports from
\* the detectors whose fields are all present is what it reports for the
\* complete snapshots.
C5_OptionalFieldsTotal ==
    /\ issues # Raised
    /\ Called("analyzePage") =>
           issues = Without(analyzePage(OptBase(lastCall[2])), AbsentFields(Analyzed))
    /\ Called("compareSnapshots") =>
           LET everywhere == {f \in OptionalFields :
                                 \A i \in 1..Len(snapshots) : f \in AbsentFields(snapshots[i])}
               somewhere == UNION {AbsentFields(snapshots[i]) : i \in 1..Len(snapshots)}
           IN /\ Without(issues, everywhere) = issues
              /\ Without(issues, somewhere) = Without(compareSnapshots(OptBases), somewhere)

\* compareSnapshots returned issues for three snapshots that carry none of the
\* nine optional fields
C5_Witness ==
    /\ Called("compareSnapshots")
    /\ \A i \in 1..Len(snapshots) : AbsentFields(snapshots[i]) = OptionalFields
    /\ Len(issues) > 0
    /\ issues # Raised

StyleTuples(els) ==
    {<<els[i].styles.fontSize, els[i].styles.fontFamily, els[i].styles.borderRadius,
       els[i].styles.padding>> : i \in 1..Len(els)}

StyleCountWarnings(iss) ==
    SelectSeq(WithTemplate(iss, "{n} different button styles found on this page"),
              LAMBDA x : x.category = "Buttons" /\ x.severity = "warning")

\* C6: for a page with at least 2 buttons, analyzePage reports exactly one
\* style-count warning when the buttons have 3 or more distinct (fontSize,
\* fontFamily, borderRadius, padding) tuples, and none when they have 1 or 2.
C6_ButtonStyleThreshold ==
    (Called("analyzePage") /\ Len(Analyzed.elements.buttons) >= 2) =>
        Len(StyleCountWarnings(issues)) =
            IF Cardinality(StyleTuples(Analyzed.elements.buttons)) >= 3 THEN 1 ELSE 0

\* a page whose buttons form exactly 3 groups was analyzed
C6_Witness ==
    /\ Called("analyzePage")
    /\ Cardinality(StyleTuples(Analyzed.elements.buttons)) = 3
    /\ Len(StyleCountWarnings(issues)) = 1

\* the (A, B) of the adjacent heading pairs with B > A + 1, in document order
SkippedPairs(headings) ==
    Flatten([i \in 1..Len(headings) |->
        IF i > 1 /\ HeadingLevel(headings[i].tag) > HeadingLevel(headings[i - 1].tag) + 1
        THEN <<<<"warning", HeadingLevel(headings[i - 1].tag), HeadingLevel(headings[i].tag)>>>>
        ELSE <<>>])

SkipWarnings(iss) ==
    LET ws == WithTemplate(iss, "Heading hierarchy skips from h{a} to h{b}")
    IN [k \in 1..Len(ws) |-> <<ws[k].severity, ws[k].message[2], ws[k].message[3]>>]

\* C7: analyzePage reports one skip warning, naming hA and hB, for each adjacent
\* heading pair whose second level exceeds the first by more than 1, in document
\* order, and no other skip warning.
C7_HeadingSkips ==
    Called("analyzePage") => SkipWarnings(issues) = SkippedPairs(Analyzed.elements.headings)

TagsOf(els) == [i \in 1..Len(els) |-> els[i].tag]

\* the page with headings [h1, h3] was analyzed: one warning, from h1 to h3
C7_Witness ==
    /\ Called("analyzePage")
    /\ TagsOf(Analyzed.elements.headings) = <<"h1", "h3">>
    /\ SkipWarnings(issues) = <<<<"warning", 1, 3>>>>

NoH1Infos(iss) ==
    SelectSeq(WithTemplate(iss, "Page has no h1 heading"), LAMBDA x : x.severity = "info")

\* C8 (as claimed): analyzePage reports exactly one 'Page has no h1 heading' info
\* when the headings hold no h1, an empty headings category included, and none
\* when they hold an h1.
C8_MissingH1 ==
    Called("analyzePage") =>
        Len(NoH1Infos(issues)) =
            IF Contains(TagsOf(Analyzed.elements.headings), "h1") THEN 0 ELSE 1

TapWarnings(iss) ==
    LET ws == SelectSeq(iss, LAMBDA x : x.category = "UX: Tap Targets")
    IN [k \in 1..Len(ws) |->
           <<ws[k].severity, ws[k].message[2], ws[k].message[4], ws[k].message[5]>>]

SmallTargets(snap) ==
    LET small == SelectSeq(snap.elements.buttons \o snap.elements.links,
                           LAMBDA el : /\ Min(el.dimensions.width, el.dimensions.height) > 0
                                       /\ Min(el.dimensions.width, el.dimensions.height) < 44)
    IN [k \in 1..Len(small) |->
           <<"warning", small[k].tag, small[k].dimensions.width, small[k].dimensions.height>>]

\* C9: analyzePage reports one tap-target warning for each button or link whose
\* smaller side is above 0 and below 44, buttons first, and none for any other.
C9_TapTargetBoundary == Called("analyzePage") => TapWarnings(issues) = SmallTargets(Analyzed)

\* a page with a 43x44 button and a 44x44 link was analyzed: one warning
C9_Witness ==
    /\ Called("analyzePage")
    /\ \E b \in 1..Len(Analyzed.elements.buttons) :
           Analyzed.elements.buttons[b].dimensions = [width |-> 43, height |-> 44]
    /\ \E l \in 1..Len(Analyzed.elements.links) :
           Analyzed.elements.links[l].dimensions = [width |-> 44, height |-> 44]
    /\ Len(TapWarnings(issues)) = 1

NameErrors(iss) ==
    LET es == SelectSeq(iss, LAMBDA x : x.category = "Buttons: Accessibility"
                                         /\ x.severity = "error")
    IN [k \in 1..Len(es) |-> es[k].message[2]]

Unnamed(buttons) ==
    TagsOf(SelectSeq(buttons, LAMBDA b : /\ b.role = "button" \/ b.tag # "button"
                                         /\ b.ariaLabel = ""
                                         /\ b.title = ""
                                         /\ b.text = ""))

\* C10: analyzePage reports one accessible-name error for each button-category
\* element that has role 'button' or is no <button> tag and whose ariaLabel,
\* title and text are all empty, and for no other element.
C10_AccessibleName ==
    Called("analyzePage") => NameErrors(issues) = Unnamed(Analyzed.elements.buttons)

\* a nameless <div role="button"> was analyzed: one error
C10_Witness ==
    /\ Called("analyzePage")
    /\ \E b \in 1..Len(Analyzed.elements.buttons) :
           LET btn == Analyzed.elements.buttons[b]
           IN btn.tag = "div" /\ btn.role = "button" /\ ~hasAccessibleName(btn)
    /\ NameErrors(issues) = <<"div">>

----------------------------------------------------------------------------
(* SpecUrl: lists of pages that differ in the address they were scanned at *)

PageP(search, hash) == Url("https://a.com", "/p", search, hash)

\* a string `new URL` rejects
NotAUrl == [valid |-> FALSE, origin |-> "about", pathname |-> "", search |-> <<>>, hash |-> ""]

FullUrls ==
    {PageP(<<>>, ""),
     PageP(<<<<"utm_source", "x">>>>, ""),
     PageP(<<<<"b", "2">>, <<"a", "1">>>>, ""),
     PageP(<<<<"a", "1">>, <<"gclid", "g">>, <<"b", "2">>>>, ""),
     PageP(<<>>, "#/x"),
     Url("https://a.com", "/q", <<>>, ""),
     NotAUrl}

\* a page scanned at fullUrl, and one whose snapshot carries no fullUrl
UrlSnaps ==
    {[Snapshot(UrlA) EXCEPT !.fullUrl = Some(u)] : u \in FullUrls}
    \cup {[Snapshot(PageP(<<<<"fbclid", "f">>>>, "")) EXCEPT !.fullUrl = Absent]}

\* all sequences over S of at least 2 and at most n members
ListsUpTo(S, n) == UNION {[1..k -> S] : k \in 2..n}

InitUrl ==
    /\ snapshots \in ListsUpTo(UrlSnaps, MaxSnapshots)
    /\ issues = <<>>
    /\ previous = Absent
    /\ lastCall = NoCall
    /\ NoPanel

SpecUrl == InitUrl /\ [][NextPage]_vars

HygieneWarnings(iss) ==
    SelectSeq(iss, LAMBDA x : x.category = "Cross-Page: URL Hygiene" /\ x.severity = "warning")

\* the sizes of the groups of more than one member that Key puts the snapshots
\* in, in the order of each group's first member
GroupSizes(snaps, Key(_)) ==
    LET keys == [i \in 1..Len(snaps) |-> Key(snaps[i])]
        first == SelectSeq([i \in 1..Len(keys) |-> i],
                           LAMBDA i : \A j \in 1..(i - 1) : keys[j] # keys[i])
        size(i) == Cardinality({j \in 1..Len(keys) : keys[j] = keys[i]})
        groups == SelectSeq(first, LAMBDA i : size(i) > 1)
    IN [k \in 1..Len(groups) |-> size(groups[k])]

CleanKey(snap) == stripTracking(FullUrl(snap))

\* C11: compareSnapshots reports one 'Cross-Page: URL Hygiene' warning, carrying
\* the number of members, for each group of more than one snapshot with the same
\* normalized URL, and none for a group of one.
C11_UrlDuplicationCount ==
    Called("compareSnapshots") =>
        LET ws == HygieneWarnings(issues)
        IN [k \in 1..Len(ws) |-> ws[k].message[2]] = GroupSizes(snapshots, CleanKey)

\* https://a.com/p?utm_source=x and https://a.com/p were compared: one warning,
\* for a group of 2
C11_Witness ==
    /\ Called("compareSnapshots")
    /\ [i \in 1..Len(snapshots) |-> snapshots[i].fullUrl]
           = <<Some(PageP(<<<<"utm_source", "x">>>>, "")), Some(PageP(<<>>, ""))>>
    /\ Len(HygieneWarnings(issues)) = 1
    /\ HygieneWarnings(issues)[1].message[2] = 2

\* the tracking parameters the specification lists
ListedTracking ==
    {"utm_source", "utm_medium", "utm_campaign", "utm_term", "utm_content", "gclid",
     "fbclid", "msclkid", "mc_cid", "mc_eid", "ref", "source"}

\* the URL with the listed parameters removed and the others sorted, every other
\* component kept
ListedKey(snap) ==
    LET u == IF Present(snap.fullUrl) THEN Get(snap.fullUrl) ELSE snap.url
    IN IF ~u.valid THEN u
       ELSE [u EXCEPT !.search = SortParams(SelectSeq(u.search,
                                                     LAMBDA q : q[1] \notin ListedTracking))]

\* C12 (as claimed): the URL-duplication groups are those of the URLs made
\* identical by removing the listed tracking parameters and sorting the others;
\* URLs that differ in origin, path, another parameter or the hash fragment are
\* never grouped.
C12_NormalizationKey ==
    Called("compareSnapshots") =>
        LET ws == HygieneWarnings(issues)
        IN [k \in 1..Len(ws) |-> ws[k].message[2]] = GroupSizes(snapshots, ListedKey)

----------------------------------------------------------------------------
(* SpecAll: lists of pages on which every detector reports *)

Styled(el, fontSize, borderRadius) ==
    WithStyle(WithStyle(el, "fontSize", fontSize), "borderRadius", borderRadius)

AllBase(i) ==
    CASE i = 1 ->
           [OptBase(1) EXCEPT
               !.elements.buttons =
                   <<WithSize(Styled(Button("button", ""), "12px", "0px"), 30, 30),
                     Styled(Button("button", ""), "14px", "2px"),
                     WithSize([Button("div", "") EXCEPT !.role = "button", !.tabIndex = Absent],
                              40, 20)>>,
               !.elements.inputs =
                   <<[Styled(Input("text", ""), "12px", "0px") EXCEPT !.id = "q"],
                     Styled(Input("text", ""), "14px", "2px"),
                     Input("email", "")>>,
               !.elements.headings =
                   <<Heading("h2", "Intro"), Heading("h4", "Note"),
                     WithStyle(Heading("h2", "More"), "fontSize", "20px")>>,
               !.elements.links =
                   <<WithStyle(Link("One"), "color", "red"),
                     WithStyle(Link("Two"), "color", "green"),
                     WithSize(WithStyle(Link("Three"), "color", "black"), 20, 20),
                     Link("Four")>>,
               !.elements.images = <<HeroImage, Image("https://a.com/b.png", "")>>]
      [] i = 2 ->
           [OptBase(2) EXCEPT
               !.fullUrl = Some(UrlB),
               !.elements.buttons = <<WithSize(Styled(Button("button", "Go"), "18px", "8px"), 20, 20)>>,
               !.elements.inputs = <<Styled(Input("email", ""), "18px", "8px")>>,
               !.elements.headings =
                   <<WithStyle(Heading("h1", "Welcome"), "fontFamily", "Georgia"),
                     WithStyle(WithStyle(Heading("h1", "Again"), "fontFamily", "Times"),
                               "fontSize", "32px")>>]
      [] i = 3 ->
           [OptBase(3) EXCEPT
               !.fullUrl = Some(Url("https://a.com", "/b", <<<<"utm_source", "x">>>>, "")),
               !.elements.links = <<WithStyle(Link("Home"), "fontFamily", "Verdana")>>]

AllSnaps == {AllBase(i) : i \in 1..3} \cup {OptBase(i) : i \in 1..3}

InitAll ==
    /\ snapshots \in SeqsUpTo(AllSnaps, MaxSnapshots)
    /\ issues = <<>>
    /\ previous = Absent
    /\ lastCall = NoCall
    /\ NoPanel

SpecAll == InitAll /\ [][NextPage]_vars

Severities(iss) == {iss[k].severity : k \in 1..Len(iss)}

\* C13: every issue analyzePage or compareSnapshots returns has severity 'error',
\* 'warning' or 'info'.
C13_SeverityEnumeration ==
    ~Called("none") => Severities(issues) \subseteq {"error", "warning", "info"}

\* analyzePage returned issues of all three severities
C13_Witness ==
    /\ Called("analyzePage")
    /\ Severities(issues) = {"error", "warning", "info"}

StartsWith(str, prefix) ==
    Len(str) >= Len(prefix) /\ SubSeq(str, 1, Len(prefix)) = prefix

\* C14: every issue analyzePage(s) returns carries s.url and a category that does
\* not start with 'Cross-Page'; every issue compareSnapshots returns carries no
\* url and a category that starts with 'Cross-Page: '.
C14_IssueScoping ==
    /\ Called("analyzePage") =>
           \A k \in 1..Len(issues) :
               /\ issues[k].url = Some(Analyzed.url)
               /\ ~StartsWith(issues[k].category, "Cross-Page")
    /\ Called("compareSnapshots") =>
           \A k \in 1..Len(issues) :
               /\ issues[k].url = Absent
               /\ StartsWith(issues[k].category, "Cross-Page: ")

Categories(iss) == {iss[k].category : k \in 1..Len(iss)}

\* compareSnapshots returned issues of every cross-page category
C14_Witness ==
    /\ Called("compareSnapshots")
    /\ Cardinality(Categories(issues)) = 11

\* the place of the detector that reports an issue, in the declaration order
PageRank(issue) ==
    CASE issue.category = "Buttons" -> 1
      [] issue.category = "Inputs" -> 2
      [] issue.category = "Headings" -> 3
      [] issue.category = "Links" -> 4
      [] issue.category = "Images" -> 5
      [] issue.category = "Images: Performance" ->
             IF issue.message[1] = "Above-the-fold image uses loading=lazy{src}" THEN 6 ELSE 7
      [] issue.category = "Layout: Performance" -> 8
      [] issue.category = "UX: Render Blocking" -> 9
      [] issue.category = "UX: Loading States" -> 10
      [] issue.category = "UX: Tap Targets" -> 11
      [] issue.category = "Buttons: Accessibility" -> 12
      [] issue.category = "Performance: Third Parties" -> 13

CrossRank(issue) ==
    CASE issue.category = "Cross-Page: Buttons" -> 1
      [] issue.category = "Cross-Page: Inputs" -> 2
      [] issue.category = "Cross-Page: Headings" -> 3
      [] issue.category = "Cross-Page: Typography" -> 4
      [] issue.category = "Cross-Page: SPA Navigation" -> 5
      [] issue.category = "Cross-Page: URL Hygiene" -> 6
      [] issue.category = "Cross-Page: Content Duplication" -> 7
      [] issue.category = "Cross-Page: Third Parties" -> 8
      [] issue.category = "Cross-Page: SPA Health" -> 9
      [] issue.category = "Cross-Page: Loading States" -> 10
      [] issue.category = "Cross-Page: Tap Targets" -> 11

NonDecreasing(ns) == \A k \in 2..Len(ns) : ns[k - 1] <= ns[k]

\* the arguments of the issues of one template, in the order reported
ArgsOf(iss, template) ==
    LET ws == WithTemplate(iss, template)
    IN [k \in 1..Len(ws) |-> Tail(ws[k].message)]

MissingAlt(images) ==
    LET bad == SelectSeq(images, LAMBDA img : img.alt = "")
    IN [k \in 1..Len(bad) |-> <<": " \o bad[k].src>>]

NoPlaceholder(inputs) ==
    LET bad == SelectSeq(inputs, LAMBDA inp : inp.type = "text" /\ inp.placeholder = "")
    IN [k \in 1..Len(bad) |-> <<IF bad[k].id = "" THEN "" ELSE " (#" \o bad[k].id \o ")">>]

\* C15: the issues analyzePage returns are in the declaration order of their
\* detectors, and those one detector reports per element are in the order of
\* the elements; the issues compareSnapshots returns are in the declaration
\* order of the cross-page detectors.
C15_OutputOrdering ==
    /\ Called("analyzePage") =>
           /\ NonDecreasing([k \in 1..Len(issues) |-> PageRank(issues[k])])
           /\ TapWarnings(issues) = SmallTargets(Analyzed)
           /\ ArgsOf(issues, "Image missing alt text{src}") = MissingAlt(Analyzed.elements.images)
           /\ Len(Analyzed.elements.inputs) >= 2 =>
                  ArgsOf(issues, "Text input without placeholder{id}")
                      = NoPlaceholder(Analyzed.elements.inputs)
    /\ Called("compareSnapshots") =>
           NonDecreasing([k \in 1..Len(issues) |-> CrossRank(issues[k])])

\* analyzePage returned issues of all 13 detectors, several per element
C15_Witness ==
    /\ Called("analyzePage")
    /\ {PageRank(issues[k]) : k \in 1..Len(issues)} = 1..13
    /\ Len(TapWarnings(issues)) = 3
    /\ Len(ArgsOf(issues, "Image missing alt text{src}")) = 2

EmptyTextErrors(iss) ==
    SelectSeq(WithTemplate(iss, "Button has no text content"),
              LAMBDA x : x.category = "Buttons" /\ x.severity = "error")

EmptyButtons(buttons) == SelectSeq(buttons, LAMBDA b : b.tag = "button" /\ b.text = "")

\* C16 (as claimed): whatever the number of buttons, exactly one included,
\* analyzePage reports one 'Button has no text content' error for each <button>
\* with empty text, and none for any other element.
C16_EmptyTextButtons ==
    Called("analyzePage") =>
        Len(EmptyTextErrors(issues)) = Len(EmptyButtons(Analyzed.elements.buttons))

AllButtons(snaps) == Flatten([i \in 1..Len(snaps) |-> snaps[i].elements.buttons])

ButtonDriftWarnings(iss) ==
    SelectSeq(iss, LAMBDA x : x.category = "Cross-Page: Buttons" /\ x.severity = "warning")

\* C17 (as claimed): for a list of at least 2 snapshots compareSnapshots reports
\* exactly one 'Cross-Page: Buttons' warning if the buttons of all the snapshots,
\* whatever their urls, have more than 3 distinct (fontSize, fontFamily,
\* borderRadius, padding) signatures, and none otherwise.
C17_CrossPageButtonDrift ==
    (Called("compareSnapshots") /\ Len(snapshots) >= 2) =>
        Len(ButtonDriftWarnings(issues)) =
            IF Cardinality(StyleTuples(AllButtons(snapshots))) > 3 THEN 1 ELSE 0

----------------------------------------------------------------------------
(* SpecSpa: lists of routes that differ in url, title, h1 text and isSPA *)

PageUrl(i) == Url("https://a.com", "/r" \o ToString(i), <<>>, "")

\* n routes: those of `same` share the url of the first, those of `spa` are
\* single-page-app routes
Routes(n, same, spa, h1s, titles) ==
    [i \in 1..n |->
        [Snapshot(PageUrl(IF i \in same THEN 1 ELSE i)) EXCEPT
            !.isSPA = i \in spa, !.primaryH1Text = h1s[i], !.title = titles[i]]]

H1Values == {Absent, Some(""), Some("Home"), Some("Other")}

Titles == {"Home", "About"}

SpaLists ==
    UNION {
        {Routes(n, same, spa, h1s, [i \in 1..n |-> "Home"]) :
            same \in {{}, {1, 2}, 1..n}, spa \in {{}, {1}, {n}, 1..n},
            h1s \in [1..n -> H1Values]}
        \cup
        {Routes(n, same, spa, [i \in 1..n |-> Some("")], titles) :
            same \in {{}, {1, 2}, 1..n}, spa \in {{}, {1}, {n}, 1..n},
            titles \in [1..n -> Titles]}
        : n \in 2..MaxSnapshots}

InitSpa ==
    /\ snapshots \in SpaLists
    /\ issues = <<>>
    /\ previous = Absent
    /\ lastCall = NoCall
    /\ NoPanel

SpecSpa == InitSpa /\ [][NextPage]_vars

SomeSpa(snaps) == \E i \in 1..Len(snaps) : snaps[i].isSPA

DistinctUrls(snaps) == {snaps[i].url : i \in 1..Len(snaps)}

SameH1Infos(iss) ==
    SelectSeq(WithTemplate(iss, "All pages share the same h1: {h1}"),
              LAMBDA x : x.severity = "info")

\* C18 (as claimed): compareSnapshots reports the 'All pages share the same h1'
\* info only when some snapshot has isSPA, there are more than 2 distinct urls,
\* and every snapshot has the same non-empty primaryH1Text.
C18_StaleH1 ==
    (Called("compareSnapshots") /\ Len(SameH1Infos(issues)) > 0) =>
        /\ SomeSpa(snapshots)
        /\ Cardinality(DistinctUrls(snapshots)) > 2
        /\ \A i \in 1..Len(snapshots) :
               /\ Present(snapshots[i].primaryH1Text)
               /\ Get(snapshots[i].primaryH1Text) # ""
               /\ snapshots[i].primaryH1Text = snapshots[1].primaryH1Text

SpaNavigation(iss) == SelectSeq(iss, LAMBDA x : x.category = "Cross-Page: SPA Navigation")

SameTitleWarnings(iss) ==
    SelectSeq(WithTemplate(SpaNavigation(iss), "All {n} pages share the same title: {title}"),
              LAMBDA x : x.severity = "warning")

\* C19: for a list of at least 2 snapshots compareSnapshots reports exactly one
\* shared-title warning if some snapshot has isSPA, there are at least 2 distinct
\* urls and all titles are the same, and none otherwise; when no snapshot has
\* isSPA it reports no 'Cross-Page: SPA Navigation' issue at all.
C19_StaleTitle ==
    (Called("compareSnapshots") /\ Len(snapshots) >= 2) =>
        /\ Len(SameTitleWarnings(issues)) =
               IF /\ SomeSpa(snapshots)
                  /\ Cardinality(DistinctUrls(snapshots)) >= 2
                  /\ Cardinality({snapshots[i].title : i \in 1..Len(snapshots)}) = 1
               THEN 1 ELSE 0
        /\ ~SomeSpa(snapshots) => SpaNavigation(issues) = <<>>

\* routes with 2 distinct urls and one title, the last of them alone a
\* single-page-app route, were compared: one warning
C19_Witness ==
    /\ Called("compareSnapshots")
    /\ Cardinality(DistinctUrls(snapshots)) = 2
    /\ {i \in 1..Len(snapshots) : snapshots[i].isSPA} = {Len(snapshots)}
    /\ Len(SameTitleWarnings(issues)) = 1

----------------------------------------------------------------------------
(* SpecDom: lists of pages that differ in their DOM size, some without domStats *)

DomCounts == {9, 10, 13, 14}

DomSnaps ==
    {[Snapshot(UrlA) EXCEPT !.domStats = Absent]}
    \cup {[Snapshot(UrlA) EXCEPT
              !.domStats = Some([totalElementCount |-> c, hiddenElementCount |-> 0])] :
             c \in DomCounts}

InitDom ==
    /\ snapshots \in ListsUpTo(DomSnaps, MaxSnapshots)
    /\ issues = <<>>
    /\ previous = Absent
    /\ lastCall = NoCall
    /\ NoPanel

SpecDom == InitDom /\ [][NextPage]_vars

\* the totalElementCount of the snapshots that carry domStats, in list order
CountsOf(snaps) ==
    LET carrying == SelectSeq(snaps, LAMBDA sn : sn.domStats # Absent)
    IN [k \in 1..Len(carrying) |-> carrying[k].domStats[1].totalElementCount]

DomGrowthWarnings(iss) ==
    SelectSeq(WithTemplate(iss, "DOM size grew from {first} to {last} elements across {n} navigations"),
              LAMBDA x : x.severity = "warning")

\* C20: compareSnapshots reports exactly one 'DOM size grew' warning if the
\* counts of the snapshots carrying domStats are at least 3, never decrease from
\* one to the next, and 10 * last > 13 * first; otherwise none.
C20_DomBloat ==
    Called("compareSnapshots") =>
        LET C == CountsOf(snapshots)
        IN Len(DomGrowthWarnings(issues)) =
               IF /\ Len(C) >= 3
                  /\ \A k \in 2..Len(C) : C[k] >= C[k - 1]
                  /\ 10 * C[Len(C)] > 13 * C[1]
               THEN 1 ELSE 0

\* counts 10, 13, 14 were compared: one warning, from 10 to 14 across 3
C20_Witness ==
    /\ Called("compareSnapshots")
    /\ CountsOf(snapshots) = <<10, 13, 14>>
    /\ Len(DomGrowthWarnings(issues)) = 1
    /\ Tail(DomGrowthWarnings(issues)[1].message) = <<10, 14, 3>>

----------------------------------------------------------------------------
(* SpecHidden: lists of pages that differ in their hidden-element counts, some
   without domStats *)

\* <<totalElementCount, hiddenElementCount>>: on either side of the ratio 0.3
\* and of the count 100
HiddenStats == {<<300, 100>>, <<300, 101>>, <<400, 120>>, <<400, 121>>, <<1000, 101>>}

HiddenSnaps ==
    {[Snapshot(UrlA) EXCEPT !.domStats = Absent]}
    \cup {[Snapshot(UrlA) EXCEPT
              !.domStats = Some([totalElementCount |-> c[1], hiddenElementCount |-> c[2]])] :
             c \in HiddenStats}

InitHidden ==
    /\ snapshots \in ListsUpTo(HiddenSnaps, MaxSnapshots)
    /\ issues = <<>>
    /\ previous = Absent
    /\ lastCall = NoCall
    /\ NoPanel

SpecHidden == InitHidden /\ [][NextPage]_vars

\* the domStats of the snapshots that carry them, in list order
StatsOf(snaps) ==
    LET carrying == SelectSeq(snaps, LAMBDA sn : sn.domStats # Absent)
    IN [k \in 1..Len(carrying) |-> carrying[k].domStats[1]]

HiddenInfos(iss) ==
    SelectSeq(WithTemplate(iss, "{p}% of DOM elements are hidden ({hidden} of {total})"),
              LAMBDA x : x.severity = "info" /\ x.category = "Cross-Page: SPA Health")

\* hiddenElementCount / totalElementCount > 0.3 and hiddenElementCount > 100
MostlyHidden(stats) ==
    /\ 10 * stats.hiddenElementCount > 3 * stats.totalElementCount
    /\ stats.hiddenElementCount > 100

\* C21: when at least one snapshot of the compared list carries domStats (one
\* is enough), compareSnapshots reports exactly one 'Cross-Page: SPA Health'
\* info if the last snapshot carrying domStats has more than 30% and more than
\* 100 hidden elements, and none otherwise.
C21_HiddenRatio ==
    (Called("compareSnapshots") /\ Len(StatsOf(snapshots)) >= 1) =>
        LET S == StatsOf(snapshots)
        IN Len(HiddenInfos(issues)) = IF MostlyHidden(S[Len(S)]) THEN 1 ELSE 0

----------------------------------------------------------------------------
(* SpecSkeleton: lists of pages that differ in their loading placeholders *)

\* the skeletons of one page, as <<backgroundColor, borderRadius>> pairs
SkeletonLists ==
    {<<>>,
     <<<<"grey", "4px">>>>,
     <<<<"grey", "4px">>, <<"grey", "8px">>, <<"grey", "4px">>>>,
     <<<<"silver", "4px">>, <<"white", "4px">>>>,
     <<<<"grey", "4px">>, <<"grey", "8px">>, <<"silver", "4px">>, <<"white", "4px">>>>}

SkeletonSnaps ==
    {[Snapshot(UrlA) EXCEPT !.skeletons = Absent]}
    \cup {[Snapshot(UrlA) EXCEPT
              !.skeletons = Some([k \in 1..Len(l) |-> Skeleton(l[k][1], l[k][2])])] :
             l \in SkeletonLists}

InitSkeleton ==
    /\ snapshots \in ListsUpTo(SkeletonSnaps, MaxSnapshots)
    /\ issues = <<>>
    /\ previous = Absent
    /\ lastCall = NoCall
    /\ NoPanel

SpecSkeleton == InitSkeleton /\ [][NextPage]_vars

\* the indices of the snapshots that have at least one skeleton
Skeletal(snaps) == {i \in 1..Len(snaps) : snaps[i].skeletons \notin {Absent, Some(<<>>)}}

\* the <<backgroundColor, borderRadius>> pairs of the skeletons of all snapshots
SkeletonSignatures(snaps) ==
    {<<sk.styles.backgroundColor, sk.styles.borderRadius>> :
        sk \in UNION {{snaps[i].skeletons[1][j] : j \in 1..Len(snaps[i].skeletons[1])} :
                         i \in Skeletal(snaps)}}

SkeletonDriftWarnings(iss) ==
    SelectSeq(iss, LAMBDA x : x.severity = "warning" /\ x.category = "Cross-Page: Loading States")

\* C22 as claimed: for a list of at least 2 snapshots, compareSnapshots reports
\* exactly one 'Cross-Page: Loading States' warning if the skeletons of all
\* snapshots carry more than 3 distinct (backgroundColor, borderRadius) pairs,
\* however many snapshots have skeletons, and none otherwise.
C22_SkeletonDrift_Claimed ==
    (Called("compareSnapshots") /\ Len(snapshots) >= 2) =>
        Len(SkeletonDriftWarnings(issues)) =
            IF Cardinality(SkeletonSignatures(snapshots)) > 3 THEN 1 ELSE 0

\* C22, amended: for a list of at least 2 snapshots, compareSnapshots reports
\* exactly one 'Cross-Page: Loading States' warning if at least 2 snapshots have
\* a skeleton and the skeletons of all snapshots carry more than 3 distinct
\* (backgroundColor, borderRadius) pairs, and none otherwise.
C22_SkeletonDrift ==
    (Called("compareSnapshots") /\ Len(snapshots) >= 2) =>
        Len(SkeletonDriftWarnings(issues)) =
            IF /\ Cardinality(Skeletal(snapshots)) >= 2
               /\ Cardinality(SkeletonSignatures(snapshots)) > 3
            THEN 1 ELSE 0

\* two pages with two pairs each, four in all, were compared: one warning
C22_Witness ==
    /\ Called("compareSnapshots")
    /\ Cardinality(Skeletal(snapshots)) = 2
    /\ \A i \in Skeletal(snapshots) : Len(snapshots[i].skeletons[1]) <= 3
    /\ Cardinality(SkeletonSignatures(snapshots)) = 4
    /\ Len(SkeletonDriftWarnings(issues)) = 1
    /\ Tail(SkeletonDriftWarnings(issues)[1].message) = <<4, 2>>

----------------------------------------------------------------------------
(* SpecTap: lists of pages that differ in the sizes of their buttons and links *)

\* the <<width, height>> of the tappable elements of one page: the first is a
\* button, the others are links
TapLists ==
    {<<>>,
     <<<<0, 30>>>>,
     <<<<40, 90>>>>,
     <<<<90, 80>>>>,
     <<<<81, 81>>>>,
     <<<<100, 120>>, <<20, 20>>>>,
     <<<<100, 100>>, <<0, 0>>, <<60, 20>>, <<40, 40>>>>}

TapSnaps ==
    {[Snapshot(UrlA) EXCEPT
         !.elements.buttons = [k \in 1..Min(Len(l), 1) |->
                                  WithSize(Button("button", "OK"), l[k][1], l[k][2])],
         !.elements.links = [k \in 1..(Len(l) - Min(Len(l), 1)) |->
                                WithSize(Link("More"), l[k + 1][1], l[k + 1][2])]] :
        l \in TapLists}

InitTap ==
    /\ snapshots \in ListsUpTo(TapSnaps, MaxSnapshots)
    /\ issues = <<>>
    /\ previous = Absent
    /\ lastCall = NoCall
    /\ NoPanel

SpecTap == InitTap /\ [][NextPage]_vars

\* the positive min(width, height) of the buttons and links of snap, as a bag
PositiveSizes(snap) ==
    LET tappable == snap.elements.buttons \o snap.elements.links
        side(el) == IF el.dimensions.width < el.dimensions.height
                    THEN el.dimensions.width ELSE el.dimensions.height
    IN SelectSeq([k \in 1..Len(tappable) |-> side(tappable[k])], LAMBDA n : n > 0)

\* the value at rank r (from 1) of the sizes in ascending order
Ranked(sizes, r) ==
    CHOOSE v \in {sizes[k] : k \in 1..Len(sizes)} :
        /\ Cardinality({k \in 1..Len(sizes) : sizes[k] < v}) < r
        /\ Cardinality({k \in 1..Len(sizes) : sizes[k] <= v}) >= r

\* twice the median: twice the middle value of an odd count, the sum of the
\* two middle values of an even count
TwiceMedian(sizes) ==
    LET n == Len(sizes)
    IN IF n % 2 = 1 THEN 2 * Ranked(sizes, (n + 1) \div 2)
       ELSE Ranked(sizes, n \div 2) + Ranked(sizes, (n \div 2) + 1)

TwiceMedians(snaps) ==
    {TwiceMedian(PositiveSizes(snaps[i])) :
        i \in {k \in 1..Len(snaps) : PositiveSizes(snaps[k]) # <<>>}}

Measured(snaps) == {k \in 1..Len(snaps) : PositiveSizes(snaps[k]) # <<>>}

TapDriftInfos(iss) ==
    SelectSeq(iss, LAMBDA x : x.severity = "info" /\ x.category = "Cross-Page: Tap Targets")

\* C23: compareSnapshots reports exactly one 'Cross-Page: Tap Targets' info if
\* at least 2 snapshots have a button or link of positive size and the largest
\* of their medians of min(width, height) is more than twice the smallest, the
\* median of an even count being the mean of its two middle values; otherwise
\* none, a ratio of exactly 2 included.
C23_TapTargetDrift ==
    Called("compareSnapshots") =>
        LET M == TwiceMedians(snapshots)
        IN Len(TapDriftInfos(issues)) =
               IF /\ Cardinality(Measured(snapshots)) >= 2
                  /\ \E lo \in M, hi \in M : hi > 2 * lo
               THEN 1 ELSE 0

----------------------------------------------------------------------------
(* SpecGroup: one page whose buttons have empty, missing and '|'-holding
   style values *)

GroupFontSizes == {"14px", "", Undefined}

\* <<fontFamily, borderRadius>>
GroupFamilyRadii == {<<"Arial", "4px">>, <<"Arial|4px", "4px">>, <<"Arial", "4px|4px">>}

GroupButtons ==
    {[Button("button", "OK") EXCEPT !.styles.fontSize = fs, !.styles.fontFamily = fr[1],
                                    !.styles.borderRadius = fr[2]] :
        fs \in GroupFontSizes, fr \in GroupFamilyRadii}

GroupSnaps == PagesWith("buttons", SeqsUpTo(GroupButtons, MaxButtons))

InitGroup ==
    /\ snapshots \in {<<s>> : s \in GroupSnaps}
    /\ issues = <<>>
    /\ previous = Absent
    /\ lastCall = NoCall
    /\ NoPanel

SpecGroup == InitGroup /\ [][NextPage]_vars

\* the values of el for the keys, one per key, undefined kept apart from ""
ValueTuple(el, keys) == [k \in 1..Len(keys) |-> el.styles[keys[k]]]

\* how many members of the sequence equal v
Occurrences(s, v) == Cardinality({i \in 1..Len(s) : s[i] = v})

\* C24: _groupByStyles(elements, keys) puts every element in exactly one
\* group, and two elements in the same group exactly when they have the same
\* value for every key: a missing value is equal only to a missing value (not
\* to the empty string), and a '|' inside a value does not make two different
\* value tuples one.
C24_GroupingIsPartition ==
    Called("analyzePage") =>
        LET elements == Analyzed.elements.buttons
            groups == _groupByStyles(elements, ButtonStyleKeys)
            all == Flatten(groups)
        IN /\ Len(all) = Len(elements)
           /\ \A i \in 1..Len(elements) :
                  Occurrences(all, elements[i]) = Occurrences(elements, elements[i])
           /\ \A g \in 1..Len(groups), h \in 1..Len(groups) :
                  \A x \in 1..Len(groups[g]), y \in 1..Len(groups[h]) :
                      (g = h) <=> (ValueTuple(groups[g][x], ButtonStyleKeys)
                                       = ValueTuple(groups[h][y], ButtonStyleKeys))

----------------------------------------------------------------------------
(* SpecHero: one page whose images differ in size, position and loading hints *)

MaxImages == 3

\* <<src, width, height, rectTop, rectBottom, fetchPriority, decoding>>
HeroImages ==
    {<<"a.png", 400, 400, 0, 400, "", "sync">>,
     <<"b.png", 400, 400, 100, 500, "high", "async">>,
     <<"c.png", 250, 200, 0, 200, "auto", "">>,
     <<"d.png", 249, 200, 0, 200, Undefined, "sync">>,
     <<"e.png", 1000, 1000, 900, 1900, "", "sync">>,
     <<"f.png", 800, 300, -300, 0, "", "sync">>,
     <<"", 500, 400, -10, 390, Undefined, "sync">>}

HeroImageOf(v) ==
    [WithSize(Image(v[1], "picture"), v[2], v[3]) EXCEPT
        !.rectTop = v[4], !.rectBottom = v[5], !.fetchPriority = v[6], !.decoding = v[7]]

ViewportHeights == {Absent, Some(0), Some(800)}

HeroSnaps ==
    {[Snapshot(UrlA) EXCEPT !.viewportHeight = vh,
                            !.elements.images = [k \in 1..Len(l) |-> HeroImageOf(l[k])]] :
        vh \in ViewportHeights, l \in SeqsUpTo(HeroImages, MaxImages)}

InitHero ==
    /\ snapshots \in {<<s>> : s \in HeroSnaps}
    /\ issues = <<>>
    /\ previous = Absent
    /\ lastCall = NoCall
    /\ NoPanel

SpecHero == InitHero /\ [][NextPage]_vars

HeroHints(iss) ==
    SelectSeq(iss, LAMBDA x :
        x.message[1] \in {"Largest above-fold image missing fetchpriority=high{src}",
                          "Hero image uses decoding=sync{src}"})

PixelArea(img) == img.dimensions.width * img.dimensions.height

\* the indices of the images that are partly or wholly inside the viewport
InViewport(snap) ==
    {i \in 1..Len(snap.elements.images) :
        /\ snap.elements.images[i].rectTop < snap.viewportHeight[1]
        /\ snap.elements.images[i].rectBottom > 0}

\* the indices of the hero: the earliest image of the greatest area in the
\* viewport, if there is one (a set of at most one index)
HeroIndex(snap) ==
    {i \in InViewport(snap) :
        /\ \A j \in InViewport(snap) :
               PixelArea(snap.elements.images[j]) <= PixelArea(snap.elements.images[i])
        /\ \A j \in InViewport(snap) :
               j < i => PixelArea(snap.elements.images[j]) < PixelArea(snap.elements.images[i])}

\* the hints due for the image: an info unless it has a fetchPriority other than
\* 'auto', then a warning if its decoding is 'sync'; none under 50000 square px
HintsDue(img, url) ==
    LET about == IF img.src \in {"", Undefined} THEN "" ELSE ": " \o img.src
    IN IF PixelArea(img) < 50000 THEN <<>>
       ELSE (IF img.fetchPriority \in {"", Undefined, "auto"}
             THEN <<Issue("info", "Images: Performance",
                          <<"Largest above-fold image missing fetchpriority=high{src}", about>>,
                          <<>>, Some(url))>>
             ELSE <<>>)
            \o
            (IF img.decoding = "sync"
             THEN <<Issue("warning", "Images: Performance",
                          <<"Hero image uses decoding=sync{src}", about>>,
                          <<>>, Some(url))>>
             ELSE <<>>)

HeroHintsDue(snap) ==
    IF HeroIndex(snap) = {} THEN <<>>
    ELSE HintsDue(snap.elements.images[CHOOSE i \in HeroIndex(snap) : TRUE], snap.url)

\* C25 as claimed: whenever viewportHeight is present, the hero hints
\* analyzePage reports are those due for the earliest image of the greatest
\* area in the viewport: none under 50000 square px, else at most one info and
\* at most one warning, about that image only.
C25_HeroSelection_Claimed ==
    (Called("analyzePage") /\ Analyzed.viewportHeight # Absent) =>
        HeroHints(issues) = HeroHintsDue(Analyzed)

\* C25, amended: the same whenever viewportHeight is present and not 0; with
\* viewportHeight absent or 0 analyzePage reports no hero hint.
C25_HeroSelection ==
    Called("analyzePage") =>
        HeroHints(issues) =
            IF Analyzed.viewportHeight \in {Absent, Some(0)} THEN <<>>
            ELSE HeroHintsDue(Analyzed)

\* a.png and then b.png, of the same area and both in the viewport, were
\* analysed with a third image: the two hints are about a.png
C25_Witness ==
    /\ Called("analyzePage")
    /\ Analyzed.viewportHeight = Some(800)
    /\ Len(Analyzed.elements.images) = 3
    /\ \E i, j \in InViewport(Analyzed) :
           /\ i < j
           /\ Analyzed.elements.images[i].src = "a.png"
           /\ Analyzed.elements.images[j].src = "b.png"
    /\ HeroIndex(Analyzed) # {}
    /\ Len(HeroHints(issues)) = 2
    /\ \A k \in 1..2 : HeroHints(issues)[k].message[2] = ": a.png"

----------------------------------------------------------------------------
(* The background service worker and the DevTools panel (src/panel.js) *)

\* the reply to EXTRACT_ELEMENTS for the page, extracted at Date.now() = t
Response(page, t) ==
    [f \in DOMAIN page \cup {"timestamp"} |-> IF f = "timestamp" THEN t ELSE page[f]]

\* result.prospector_snapshots || []
Stored == IF Present(storage) THEN Get(storage) ELSE <<>>

TimestampsOf(list) == {list[k].timestamp : k \in 1..Len(list)}

\* mutant: the splice keeps the oldest entries
Pushed_keepsOldest(list, snapshot, max) ==
    LET all == Append(list, snapshot)
    IN IF Len(all) > max THEN SubSeq(all, 1, max) ELSE all

\* snapshots.push(snapshot) and the splice(0, length - max) that follows it
Pushed(list, snapshot, max) ==
    LET all == Append(list, snapshot)
    IN IF Len(all) > max THEN SubSeq(all, Len(all) - max + 1, Len(all)) ELSE all

\* `if (snapshots.length > 50)`
MaxStored == 50

\* a call of the port.onMessage listener, suspended at an await
Handler(port, type, pc) ==
    [port |-> port, type |-> type, pc |-> pc, response |-> Absent, local |-> <<>>]

\* the panel after panel.js has run: nothing scanned, the Scan button enabled
NewPanel ==
    [snapshots |-> <<>>, currentIssues |-> <<>>, scanDisabled |-> FALSE,
     statusText |-> <<"Ready">>, summaryCounts |-> <<0, 0, 0, 0>>, summaryShown |-> FALSE,
     compares |-> 0, row |-> 0, compared |-> Absent]

CountOf(iss, severity) == Len(SelectSeq(iss, LAMBDA x : x.severity = severity))

updateSummary(pn) ==
    [pn EXCEPT
        !.summaryCounts = <<CountOf(pn.currentIssues, "error"), CountOf(pn.currentIssues, "warning"),
                            CountOf(pn.currentIssues, "info"), Len(pn.snapshots)>>,
        !.summaryShown = (Len(pn.currentIssues) > 0 \/ Len(pn.snapshots) > 0)]

\* the handlers and the pending operations once handler h has returned
Returned(h) ==
    /\ handlers' = SubSeq(handlers, 1, h - 1) \o SubSeq(handlers, h + 1, Len(handlers))
    /\ pending' = [k \in 1..Len(pending) |-> IF pending[k] > h THEN pending[k] - 1 ELSE pending[k]]

\* port.postMessage(message) of the background
Post(port, message) == inbox' = [inbox EXCEPT ![port] = Append(@, message)]

Live(type) == {h \in 1..Len(handlers) : handlers[h].type = type}

\* chrome.runtime.onConnect: the panel opens and asks for the stored snapshots
Connect(maxPorts) ==
    LET port == Len(panel) + 1
    IN /\ port <= maxPorts
       /\ panelPorts' = panelPorts \cup {port}
       /\ panel' = Append(panel, NewPanel)
       /\ inbox' = Append(inbox, <<>>)
       /\ handlers' = Append(handlers, Handler(port, "GET_SNAPSHOTS", "get"))
       /\ pending' = Append(pending, Len(handlers) + 1)
       /\ UNCHANGED <<storage, clock, cleared, written>>
       /\ UNCHANGED engine

\* btnScan click; the button cannot be clicked while it is disabled
ClickScan(p, maxScans) ==
    /\ p \in panelPorts
    /\ ~panel[p].scanDisabled
    /\ clock + Cardinality({h \in Live("SCAN_PAGE") : ~Present(handlers[h].response)}) < maxScans
    /\ panel' = [panel EXCEPT ![p].statusText = <<"Scanning">>, ![p].scanDisabled = TRUE,
                              ![p].row = 0, ![p].compared = Absent]
    /\ handlers' = Append(handlers, Handler(p, "SCAN_PAGE", "query"))
    /\ UNCHANGED <<panelPorts, storage, pending, inbox, clock, cleared, written>>
    /\ UNCHANGED engine

\* chrome.tabs.query resolves, with an active tab or with none
TabsQuery(h, found) ==
    /\ h \in Live("SCAN_PAGE")
    /\ handlers[h].pc = "query"
    /\ IF found
       THEN /\ handlers' = [handlers EXCEPT ![h].pc = "extract"]
            /\ UNCHANGED <<pending, inbox>>
       ELSE /\ Post(handlers[h].port, [type |-> "SCAN_ERROR", data |-> <<"No active tab found">>])
            /\ Returned(h)
    /\ UNCHANGED <<panelPorts, storage, panel, clock, cleared, written>>
    /\ UNCHANGED engine

\* chrome.tabs.sendMessage resolves with the content script's response
ContentScriptResponds(h, page) ==
    /\ h \in Live("SCAN_PAGE")
    /\ handlers[h].pc = "extract"
    /\ clock' = clock + 1
    /\ handlers' = [handlers EXCEPT ![h].response = Some(Response(page, clock + 1)),
                                    ![h].pc = "get"]
    /\ pending' = Append(pending, h)
    /\ UNCHANGED <<panelPorts, storage, inbox, panel, cleared, written>>
    /\ UNCHANGED engine

\* chrome.tabs.sendMessage resolves with no response: `if (response)` is skipped
NoResponse(h) ==
    /\ h \in Live("SCAN_PAGE")
    /\ handlers[h].pc = "extract"
    /\ Returned(h)
    /\ UNCHANGED <<panelPorts, storage, inbox, panel, clock, cleared, written>>
    /\ UNCHANGED engine

\* chrome.tabs.query or chrome.tabs.sendMessage rejects: the catch block
Rejected(h) ==
    /\ h \in Live("SCAN_PAGE")
    /\ handlers[h].pc \in {"query", "extract"}
    /\ Post(handlers[h].port, [type |-> "SCAN_ERROR", data |-> <<"err.message">>])
    /\ Returned(h)
    /\ UNCHANGED <<panelPorts, storage, panel, clock, cleared, written>>
    /\ UNCHANGED engine

\* chrome.storage.local.get is performed: the oldest pending operation
StorageGet(h) ==
    /\ h \in 1..Len(handlers)
    /\ pending # <<>>
    /\ h = Head(pending)
    /\ handlers[h].pc = "get"
    /\ handlers' = [handlers EXCEPT ![h].local = Stored, ![h].pc = "got"]
    /\ pending' = Tail(pending)
    /\ UNCHANGED <<panelPorts, storage, inbox, panel, clock, cleared, written>>
    /\ UNCHANGED engine

\* storeSnapshot resumes after the get: push, splice, and the set is issued
PushSnapshot(h) ==
    /\ h \in Live("SCAN_PAGE")
    /\ handlers[h].pc = "got"
    /\ handlers' = [handlers EXCEPT
                       ![h].local = Pushed(@, Get(handlers[h].response), MaxStored),
                       ![h].pc = "set"]
    /\ pending' = Append(pending, h)
    /\ UNCHANGED <<panelPorts, storage, inbox, panel, clock, cleared, written>>
    /\ UNCHANGED engine

\* chrome.storage.local.set is performed: the oldest pending operation
StorageSet(h) ==
    /\ h \in 1..Len(handlers)
    /\ pending # <<>>
    /\ h = Head(pending)
    /\ handlers[h].pc = "set"
    /\ storage' = Some(handlers[h].local)
    /\ cleared' = IF handlers[h].type = "CLEAR_SNAPSHOTS"
                  THEN cleared \cup TimestampsOf(Stored) ELSE cleared
    /\ written' = IF handlers[h].type = "CLEAR_SNAPSHOTS" THEN {}
                  ELSE written \cup {Get(handlers[h].response).timestamp}
    /\ handlers' = [handlers EXCEPT ![h].pc = "post"]
    /\ pending' = Tail(pending)
    /\ UNCHANGED <<panelPorts, inbox, panel, clock>>
    /\ UNCHANGED engine

\* the handler resumes after its last await, posts its message and returns
PostMessage(h) ==
    /\ h \in 1..Len(handlers)
    /\ \/ /\ handlers[h].type = "SCAN_PAGE"
          /\ handlers[h].pc = "post"
          /\ Post(handlers[h].port, [type |-> "SCAN_RESULT", data |-> Get(handlers[h].response)])
       \/ /\ handlers[h].type = "GET_SNAPSHOTS"
          /\ handlers[h].pc = "got"
          /\ Post(handlers[h].port, [type |-> "SNAPSHOTS_LIST", data |-> handlers[h].local])
       \/ /\ handlers[h].type = "CLEAR_SNAPSHOTS"
          /\ handlers[h].pc = "post"
          /\ Post(handlers[h].port, [type |-> "SNAPSHOTS_LIST", data |-> <<>>])
    /\ Returned(h)
    /\ UNCHANGED <<panelPorts, storage, panel, clock, cleared, written>>
    /\ UNCHANGED engine

\* the panel's port.onMessage listener, for the oldest message posted to it
OnMessage(p) ==
    /\ p \in panelPorts
    /\ inbox[p] # <<>>
    /\ inbox' = [inbox EXCEPT ![p] = Tail(@)]
    /\ LET message == Head(inbox[p])
           pn == panel[p]
       IN panel' = [panel EXCEPT ![p] =
              CASE message.type = "SCAN_RESULT" ->
                     LET pushed == [pn EXCEPT !.snapshots = Append(@, message.data),
                                              !.compares = 0, !.row = 0, !.compared = Absent]
                         pageIssues == analyzePage(message.data)
                     IN IF pageIssues = Raised THEN pushed
                        ELSE LET shown == updateSummary(
                                     [pushed EXCEPT !.currentIssues = @ \o pageIssues])
                             IN IF ~message.data.url.valid THEN shown
                                ELSE [shown EXCEPT
                                         !.statusText = <<"Scanned: {pathname}",
                                                          message.data.url.pathname>>,
                                         !.scanDisabled = FALSE]
                [] message.type = "SCAN_ERROR" ->
                     [pn EXCEPT !.statusText = <<"Error: {error}">> \o message.data,
                                !.scanDisabled = FALSE, !.row = 0, !.compared = Absent]
                [] message.type = "SNAPSHOTS_LIST" ->
                     updateSummary(
                         IF message.data = <<>>
                         THEN [pn EXCEPT !.snapshots = <<>>, !.currentIssues = <<>>,
                                         !.compares = 0, !.row = 0, !.compared = Absent]
                         ELSE [pn EXCEPT !.snapshots = message.data,
                                         !.compares = 0, !.row = 0, !.compared = Absent])]
    /\ UNCHANGED <<panelPorts, storage, pending, handlers, clock, cleared, written>>
    /\ UNCHANGED engine

\* btnCompare click. compares counts the comparisons appended to currentIssues
\* since the snapshots last changed, row the Compare clicks in a row that ran a
\* comparison, and compared holds currentIssues as the first click of the row
\* left it
ClickCompare(p, maxCompares) ==
    /\ p \in panelPorts
    /\ panel[p].compares < maxCompares
    /\ LET pn == panel[p]
           crossIssues == compareSnapshots(pn.snapshots)
       IN panel' = [panel EXCEPT ![p] =
              IF Len(pn.snapshots) < 2
              THEN [pn EXCEPT !.statusText = <<"Need at least 2 pages to compare">>,
                              !.row = 0, !.compared = Absent]
              ELSE [pn EXCEPT
                       !.currentIssues = @ \o crossIssues,
                       !.statusText = <<"Compared {n} pages", Len(pn.snapshots)>>,
                       !.compares = @ + 1,
                       !.row = @ + 1,
                       !.compared = IF pn.row = 0
                                    THEN Some(pn.currentIssues \o crossIssues) ELSE @]]
    /\ UNCHANGED <<panelPorts, storage, pending, handlers, inbox, clock, cleared, written>>
    /\ UNCHANGED engine

\* the message a CLEAR_SNAPSHOTS handler posts
Emptied(message) == message.type = "SNAPSHOTS_LIST" /\ message.data = <<>>

\* btnClear click; at most maxClears clears are under way at a time
ClickClear(p, maxClears) ==
    /\ p \in panelPorts
    /\ Cardinality(Live("CLEAR_SNAPSHOTS")) + Len(SelectSeq(Flatten(inbox), Emptied)) < maxClears
    /\ panel' = [panel EXCEPT ![p].snapshots = <<>>, ![p].currentIssues = <<>>,
                              ![p].statusText = <<"Cleared">>, ![p].summaryShown = FALSE,
                              ![p].compares = 0, ![p].row = 0, ![p].compared = Absent]
    /\ handlers' = Append(handlers, [Handler(p, "CLEAR_SNAPSHOTS", "set") EXCEPT !.local = <<>>])
    /\ pending' = Append(pending, Len(handlers) + 1)
    /\ UNCHANGED <<panelPorts, storage, inbox, clock, cleared, written>>
    /\ UNCHANGED engine

\* the steps of the background's handlers, of which at most `running` run at a
\* time, for the pages the tab can show
Background(pages, running) ==
    \E h \in 1..running :
        \/ \E found \in BOOLEAN : TabsQuery(h, found)
        \/ \E page \in pages : ContentScriptResponds(h, page)
        \/ NoResponse(h)
        \/ Rejected(h)
        \/ StorageGet(h)
        \/ PushSnapshot(h)
        \/ StorageSet(h)
        \/ PostMessage(h)

----------------------------------------------------------------------------
(* SpecExt: up to two panels scan and clear against one background *)

MaxPorts == 2

MaxScans == 2

MaxCompares == 2

MaxClears == 1

\* the page the active tab shows: four buttons, each of its own style
ScanPages == {WithElements(Snapshot(UrlA), "buttons", DriftButtons(<<4, 3, 2, 1>>))}

NextExt ==
    \/ Connect(MaxPorts)
    \/ \E p \in 1..MaxPorts :
           \/ ClickScan(p, MaxScans)
           \/ ClickClear(p, MaxClears)
           \/ OnMessage(p)
    \/ Background(ScanPages, MaxPorts + MaxScans + MaxClears)

SpecExt == Init /\ [][NextExt]_vars

----------------------------------------------------------------------------
(* SpecPanel: one panel scans, compares and clears *)

NextPanel ==
    \/ Connect(1)
    \/ ClickScan(1, MaxScans)
    \/ ClickCompare(1, MaxCompares)
    \/ ClickClear(1, MaxClears)
    \/ OnMessage(1)
    \/ Background(ScanPages, 1 + MaxScans + MaxClears)

SpecPanel == Init /\ [][NextPanel]_vars

----------------------------------------------------------------------------
(* SpecStore: one panel, opened on an empty storage, scans page after page *)

MaxStoreScans == 52

InitStore ==
    /\ snapshots = <<>>
    /\ issues = <<>>
    /\ previous = Absent
    /\ lastCall = NoCall
    /\ panelPorts = {1}
    /\ storage = Absent
    /\ pending = <<>>
    /\ handlers = <<>>
    /\ inbox = << <<>> >>
    /\ panel = <<NewPanel>>
    /\ clock = 0
    /\ cleared = {}
    /\ written = {}

NextStore ==
    \/ ClickScan(1, MaxStoreScans)
    \/ OnMessage(1)
    \/ Background({Snapshot(UrlA)}, 1)

SpecStore == InitStore /\ [][NextStore]_vars

----------------------------------------------------------------------------
(* Claims about the background's storage and the panel *)

\* the scans whose snapshot has been extracted and is not yet written
Unwritten == {h \in Live("SCAN_PAGE") : handlers[h].pc \in {"get", "got", "set"}}

\* C26: when every storeSnapshot call ends before the next one starts, the
\* persisted list never has more than 50 entries and is the last min(n, 50) of
\* the n snapshots stored so far, oldest first.
C26_BoundedHistory ==
    LET n == clock - Cardinality(Unwritten)
        kept == IF n < 50 THEN n ELSE 50
    IN /\ Len(Stored) <= 50
       /\ Stored = [k \in 1..kept |-> Response(Snapshot(UrlA), n - kept + k)]

\* 52 snapshots were stored one after the other: the list holds the 3rd to the 52nd
C26_Witness ==
    /\ clock = 52
    /\ handlers = <<>>
    /\ Len(Stored) = 50
    /\ Stored[1].timestamp = 3
    /\ Stored[50].timestamp = 52

\* the replies to a scan that are on their way to panel p
ScanReplies(p) == SelectSeq(inbox[p], LAMBDA m : m.type \in {"SCAN_RESULT", "SCAN_ERROR"})

ScansOf(p) == {h \in Live("SCAN_PAGE") : handlers[h].port = p}

\* C27: every SCAN_PAGE a panel sends gets exactly one SCAN_RESULT or
\* SCAN_ERROR, whatever the tab query and the content script yield: while the
\* Scan button is disabled, either the handler of that scan is still running or
\* its one reply is on its way to the panel, so the button is enabled again.
C27_ScanAnswered ==
    \A p \in panelPorts :
        Cardinality(ScansOf(p)) + Len(ScanReplies(p)) = IF panel[p].scanDisabled THEN 1 ELSE 0

\* C28: once a CLEAR_SNAPSHOTS write has emptied the persisted list, no snapshot
\* that was in the list before that write is in the persisted list again,
\* however the scan and clear handlers interleave.
C28_ClearIsFinal == TimestampsOf(Stored) \cap cleared = {}

\* C29: when several SCAN_PAGE requests, handled with their awaits interleaved,
\* have all been answered with SCAN_RESULT and no handler is running any more,
\* the persisted list holds the snapshot of each of them (fewer than 50 being
\* stored and no clear having been performed since the first of them was stored).
C29_NoLostSnapshot ==
    (handlers = <<>> /\ Cardinality(written) < 50) => written \subseteq TimestampsOf(Stored)

\* C30: with at least 2 snapshots loaded, clicking Compare twice or more in a
\* row, with no scan, clear or message in between, leaves currentIssues as the
\* first of these clicks left it: the cross-page issues of one comparison are
\* not in the list twice.
C30_CompareIdempotent ==
    \A p \in panelPorts :
        (Len(panel[p].snapshots) >= 2 /\ panel[p].row >= 2)
            => panel[p].currentIssues = Get(panel[p].compared)

====
